---- MODULE Spec2Model ----
(***************************************************************************)
(* Model of the request scheduler of examples/server/server.cpp:           *)
(* server_queue (task queue + deferred queue), server_response (result     *)
(* queue + waiting set), server_slot, and server_context                   *)
(* (process_single_task, update_slots, process_token, cancel_tasks, the    *)
(* receive loops of the HTTP handlers).                                    *)
(*                                                                         *)
(* Threads: one scheduler thread (server_queue::start_loop), the HTTP      *)
(* handler threads of the completion endpoints, and the thread of the      *)
(* /v1/cancel endpoint.  Every step of a handler thread is one critical    *)
(* section of mutex_tasks or mutex_results; the scheduler's steps are the  *)
(* pieces of start_loop between two points where another thread's          *)
(* critical section can be observed.                                       *)
(***************************************************************************)
EXTENDS Integers, Sequences, FiniteSets, TLC

(***************************************************************************)
(* Bounds of the model.                                                    *)
(***************************************************************************)
MaxTasks   == 2   \* completion tasks created by the handlers
MaxCancels == 1   \* cancellations started by clients (closed stream, /v1/cancel)
MaxPinned  == 3   \* completion tasks of the scenarios with three requests
MaxFairTasks == 1 \* completion tasks of the specification with fairness
MaxFairCancels == 2 \* cancellations of the specification with fairness
MaxCache   == 5   \* the longest cache_tokens of the context shifts applied alone
MaxDraft   == 2   \* speculative.n_max of the requests with a deterministic sampler
MaxBudget  == 3   \* the largest n_predict of those requests
MaxStopTokens == 3 \* tokens given to process_token applied alone

(***************************************************************************)
(* Configuration (gpt_params) and model metadata.                          *)
(***************************************************************************)
n_parallel   == 2       \* params.n_parallel: number of slots
n_ctx_slot   == 5       \* slot.n_ctx = n_ctx / params.n_parallel
n_batch_cfg  == 2       \* llama_n_batch(ctx)
n_ubatch_cfg == 2       \* llama_n_ubatch(ctx)
grp_attn_n   == 1       \* params.grp_attn_n: group attention is off
n_ctx_train  == 6       \* llama_n_ctx_train(model)
add_bos_token == TRUE   \* llama_add_bos_token(model)
global_n_predict == -1  \* params.n_predict
global_n_keep    == 0   \* params.n_keep
similarity_num   == 1   \* params.slot_prompt_similarity = 0.5 = similarity_num /
similarity_den   == 2   \*                                       similarity_den

SlotIds == 0 .. (n_parallel - 1)

\* enum slot_state
SLOT_STATE_IDLE              == "IDLE"
SLOT_STATE_PROCESSING_PROMPT == "PROCESSING_PROMPT"
SLOT_STATE_DONE_PROMPT       == "DONE_PROMPT"
SLOT_STATE_GENERATING        == "GENERATING"

\* enum server_task_type (the types the scheduler model takes from the queue)
SERVER_TASK_TYPE_COMPLETION    == "COMPLETION"
SERVER_TASK_TYPE_CANCEL        == "CANCEL"
SERVER_TASK_TYPE_NEXT_RESPONSE == "NEXT_RESPONSE"
SERVER_TASK_TYPE_SLOT_SAVE     == "SLOT_SAVE"
SERVER_TASK_TYPE_SLOT_RESTORE  == "SLOT_RESTORE"
SERVER_TASK_TYPE_SLOT_ERASE    == "SLOT_ERASE"

\* enum server_task_cmpl_type
SERVER_TASK_CMPL_TYPE_NORMAL    == "NORMAL"
SERVER_TASK_CMPL_TYPE_EMBEDDING == "EMBEDDING"
SERVER_TASK_CMPL_TYPE_RERANK    == "RERANK"
SERVER_TASK_CMPL_TYPE_INFILL    == "INFILL"

(***************************************************************************)
(* Tokens.  The tokenizer and the detokenizer are external; the model      *)
(* fixes a small vocabulary and the piece (bytes) of every token.          *)
(***************************************************************************)
TOK_EOS    == 0    \* llama_token_eos(model), an end-of-generation token
TOK_A      == 1
TOK_B      == 2
TOK_AB     == 3    \* a token of two characters
TOK_SP_LEAD == 4   \* a token of a space and the first byte of a 2-byte character
TOK_CONT   == 5    \* a token of one UTF-8 continuation byte
TOK_SYS    == 7    \* the token of the system prompt's text
TOK_BOS    == 10   \* llama_token_bos(model)
TOK_PREFIX == 11   \* llama_token_prefix(model)
TOK_SUFFIX == 12   \* llama_token_suffix(model)
TOK_MIDDLE == 13   \* llama_token_middle(model)
TOK_SEP    == 14   \* llama_token_sep(model)

llama_token_is_eog(tok) == tok = TOK_EOS

\* llama_token_to_piece: the bytes of a token
llama_token_to_piece(tok) ==
    CASE tok = TOK_A -> <<97>>
      [] tok = TOK_B -> <<98>>
      [] tok = TOK_AB -> <<97, 98>>
      [] tok = TOK_SP_LEAD -> <<32, 195>>
      [] tok = TOK_CONT -> <<169>>
      [] OTHER      -> <<>>

\* the tokens the target sampler may return
SampleVocab == {TOK_EOS, TOK_A}

(***************************************************************************)
(* Sequence helpers.                                                       *)
(***************************************************************************)
Min(a, b) == IF a < b THEN a ELSE b
Max(a, b) == IF a > b THEN a ELSE b

\* C++ integer division (truncation toward zero)
CDiv(a, b) ==
    IF (a >= 0) = (b > 0) THEN (IF a >= 0 THEN a ELSE -a) \div (IF b > 0 THEN b ELSE -b)
    ELSE -((IF a >= 0 THEN a ELSE -a) \div (IF b > 0 THEN b ELSE -b))

Take(s, n) == SubSeq(s, 1, Min(Len(s), Max(n, 0)))
Drop(s, n) == SubSeq(s, Min(Len(s), Max(n, 0)) + 1, Len(s))

\* std::vector::resize for a vector of tokens (new entries are 0)
Resize(s, n) == IF n <= Len(s) THEN Take(s, n) ELSE s \o [k \in 1 .. (n - Len(s)) |-> 0]

RECURSIVE common_part_from(_, _, _)
common_part_from(a, b, i) ==
    IF i < Len(a) /\ i < Len(b) /\ a[i + 1] = b[i + 1]
    THEN common_part_from(a, b, i + 1)
    ELSE i

\* utils.hpp common_part: length of the longest common prefix
common_part(a, b) == common_part_from(a, b, 0)

(***************************************************************************)
(* Strings are sequences of bytes.                                         *)
(***************************************************************************)
npos == -1   \* std::string::npos

\* std::string::find(word, from_pos): first position >= from_pos, or npos
StrFind(text, word, from_pos) ==
    LET hits == {p \in from_pos .. (Len(text) - Len(word)) :
                    SubSeq(text, p + 1, p + Len(word)) = word}
    IN IF hits = {} THEN npos ELSE CHOOSE p \in hits : \A q \in hits : p <= q

\* utils.hpp ends_with
ends_with(str, suffix) ==
    Len(str) >= Len(suffix) /\ SubSeq(str, Len(str) - Len(suffix) + 1, Len(str)) = suffix

\* utils.hpp find_partial_stop_string: the position in text where the longest
\* prefix of stop that ends text starts, or npos
find_partial_stop_string(stop, text) ==
    IF text = <<>> \/ stop = <<>> THEN npos
    ELSE LET ks == {k \in 0 .. (Len(stop) - 1) :
                       /\ stop[k + 1] = text[Len(text)]
                       /\ ends_with(text, SubSeq(stop, 1, k + 1))}
         IN IF ks = {} THEN npos
            ELSE Len(text) - (CHOOSE k \in ks : \A j \in ks : j <= k) - 1

(***************************************************************************)
(* Request payloads (server_task::data).  A prompt is a JSON value: a      *)
(* string (kept as the tokens of its text), an array of token ids, a pair  *)
(* of strings (rerank), or missing.                                        *)
(***************************************************************************)
PromptString(toks) == [kind |-> "string", toks |-> toks]
PromptTokens(toks) == [kind |-> "tokens", toks |-> toks]
PromptPair         == [kind |-> "pair",    toks |-> <<>>]   \* ["", ""]
PromptMissing      == [kind |-> "missing", toks |-> <<>>]
PromptInvalid      == [kind |-> "invalid", toks |-> <<>>]   \* e.g. an object
PromptNull         == [kind |-> "null",    toks |-> <<>>]

\* "system_prompt" of a request: absent, or the tokens of its text
NoSystemPrompt == [present |-> FALSE, text |-> <<>>]
SystemPrompt(text) == [present |-> TRUE, text |-> text]

\* the fields of a request that the scheduler reads, with the defaults of
\* launch_slot_with_task
DefaultData ==
    [ prompt        |-> PromptTokens(<<TOK_A>>),
      id_slot       |-> -1,
      system_prompt |-> NoSystemPrompt,
      sampler_ok    |-> TRUE,      \* gpt_sampler_init accepts the grammar
      both_grammars |-> FALSE,     \* "json_schema" and "grammar" both given
      schema_ok     |-> TRUE,      \* json_schema_to_grammar does not throw
      input_prefix  |-> <<>>,      \* tokens of "input_prefix"
      input_suffix  |-> <<>>,      \* tokens of "input_suffix"
      stream        |-> FALSE,
      cache_prompt  |-> TRUE,
      n_predict     |-> 2,
      n_keep        |-> global_n_keep,
      n_discard     |-> 0,
      antiprompt    |-> <<>>,
      spec_n_max    |-> 0 ]

NoData == [DefaultData EXCEPT !.prompt = PromptNull]

\* the data of a SLOT_SAVE, SLOT_RESTORE or SLOT_ERASE task: "id_slot", and
\* for the file at "filepath" what llama_state_seq_load_file will find:
\* file_ok is nread # 0 and file_tokens are the tokens it loads
SlotData(id_slot, file_ok, file_tokens) ==
    [id_slot |-> id_slot, file_ok |-> file_ok, file_tokens |-> file_tokens]

\* struct server_task
server_task(tid, type, id_target, cmpl_type, data) ==
    [id |-> tid, type |-> type, id_target |-> id_target, cmpl_type |-> cmpl_type, data |-> data]

\* struct server_task_result; kind stands for the payload (data)
server_task_result(tid, stop, error, kind, content) ==
    [id |-> tid, stop |-> stop, error |-> error, kind |-> kind, content |-> content]

(***************************************************************************)
(* struct server_slot: the state after server_context::init.               *)
(***************************************************************************)
InitSlot(sid) ==
    [ id             |-> sid,
      id_task        |-> -1,
      state          |-> SLOT_STATE_IDLE,
      cmpl_type      |-> SERVER_TASK_CMPL_TYPE_NORMAL,
      index          |-> 0,
      prompt         |-> PromptNull,
      prompt_tokens  |-> <<>>,
      cache_tokens   |-> <<>>,
      n_past         |-> 0,
      n_decoded      |-> 0,
      n_remaining    |-> -1,
      i_batch        |-> -1,
      n_prompt_tokens           |-> 0,
      n_prompt_tokens_processed |-> 0,
      generated_text |-> <<>>,
      n_sent_text    |-> 0,
      has_next_token |-> TRUE,
      truncated      |-> FALSE,
      stopped_eos    |-> FALSE,
      stopped_word   |-> FALSE,
      stopped_limit  |-> FALSE,
      stopping_word  |-> <<>>,
      sampled        |-> 0,
      stream         |-> TRUE,     \* params.stream
      cache_prompt   |-> TRUE,     \* params.cache_prompt
      n_predict      |-> -1,       \* params.n_predict
      n_keep         |-> 0,        \* params.n_keep
      n_discard      |-> 0,        \* params.n_discard
      antiprompt     |-> <<>>,     \* params.antiprompt
      spec_n_max     |-> 0,        \* params.speculative.n_max
      input_prefix   |-> <<>>,     \* params.input_prefix
      input_suffix   |-> <<>>,     \* params.input_suffix
      batch_spec     |-> <<>>,     \* batch_spec: the tokens of the speculative batch
      n_ctx          |-> n_ctx_slot,   \* n_ctx: the context of the slot
      admitted       |-> FALSE,    \* history: the task's prompt entered a batch
      n_new          |-> -1 ]      \* history: the number of tokens the prompt had after
                                   \* cache_tokens when it was tokenized, -1 when
                                   \* cache_tokens was not a prefix of it

\* server_slot::reset
reset(slot) ==
    [slot EXCEPT !.n_prompt_tokens = 0,
                 !.generated_text  = <<>>,
                 !.truncated       = FALSE,
                 !.stopped_eos     = FALSE,
                 !.stopped_word    = FALSE,
                 !.stopped_limit   = FALSE,
                 !.stopping_word   = <<>>,
                 !.n_past          = 0,
                 !.n_sent_text     = 0,
                 !.cmpl_type       = SERVER_TASK_CMPL_TYPE_NORMAL]

\* server_slot::is_processing
is_processing(slot) == slot.state # SLOT_STATE_IDLE

\* server_slot::has_budget: the pair (result, n_remaining)
has_budget(slot) ==
    IF slot.n_predict = -1 /\ global_n_predict = -1
    THEN [ok |-> TRUE, n_remaining |-> slot.n_remaining]
    ELSE LET r == IF slot.n_predict # -1 THEN slot.n_predict - slot.n_decoded
                  ELSE global_n_predict - slot.n_decoded
         IN [ok |-> r > 0, n_remaining |-> r]

(***************************************************************************)
(* The state.                                                              *)
(***************************************************************************)
VARIABLES
    slots,                  \* server_context::slots
    queue_tasks,            \* server_queue::queue_tasks
    queue_tasks_deferred,   \* server_queue::queue_tasks_deferred
    id,                     \* server_queue::id, the next task id
    running,                \* server_queue::running
    waiting_task_ids,       \* server_response::waiting_task_ids
    queue_results,          \* server_response::queue_results
    system_prompt,          \* server_context::system_prompt, the tokens of its text
    system_tokens,          \* server_context::system_tokens
    system_need_update,     \* server_context::system_need_update
    batch,                  \* server_context::batch, a sequence of entries
    decode,                 \* locals of update_slots' decode loop: i, n_batch, batch_type
    sched,                  \* where the scheduler thread is in start_loop
    threads,                \* the handler threads and the cancel endpoint's thread
    cfg,                    \* the configuration the server was started with
    hist                    \* history of the run (read by the properties only)

vars == << slots, queue_tasks, queue_tasks_deferred, id, running, waiting_task_ids,
           queue_results, system_prompt, system_tokens, system_need_update, batch,
           decode, sched, threads, cfg, hist >>

TaskIds == 0 .. (MaxPinned - 1)

(***************************************************************************)
(* The scheduler's steps work on a record c of the components they change: *)
(* slots, queue_tasks, queue_tasks_deferred, queue_results, system_prompt, *)
(* system_tokens, system_need_update, batch, hist; c.waiting is the        *)
(* waiting set they read.                                                  *)
(***************************************************************************)
Ctx ==
    [ slots                |-> slots,
      queue_tasks          |-> queue_tasks,
      queue_tasks_deferred |-> queue_tasks_deferred,
      queue_results        |-> queue_results,
      waiting              |-> waiting_task_ids,
      system_prompt        |-> system_prompt,
      system_tokens        |-> system_tokens,
      system_need_update   |-> system_need_update,
      batch                |-> batch,
      batch_type           |-> decode.batch_type,
      hist                 |-> hist ]

\* history: a result was appended to queue_results
LogSent(h, res) ==
    IF res.id \in TaskIds THEN [h EXCEPT !.sent[res.id] = Append(@, res)] ELSE h

\* server_response::send: the result is appended only if its id is waited for
send(c, res) ==
    IF res.id \in c.waiting
    THEN [c EXCEPT !.queue_results = Append(@, res), !.hist = LogSent(@, res)]
    ELSE c

\* post with every task pushed to the front, whatever front is
post_to_front(q, task, front) == <<task>> \o q

\* server_queue::post(task, front).  post gives a task without id the next
\* id; the ids of NEXT_RESPONSE and CANCEL tasks are never read, so the model
\* leaves them -1 and numbers the COMPLETION tasks consecutively
post(q, task, front) == IF front THEN <<task>> \o q ELSE Append(q, task)

\* server_queue::post(tasks, front), lines 430-445: under one lock, every
\* task is pushed in turn, to the front or to the back
RECURSIVE post_all(_, _, _)
post_all(q, tasks, front) ==
    IF tasks = <<>> THEN q ELSE post_all(post(q, Head(tasks), front), Tail(tasks), front)

\* server_queue::defer
defer(c, task) ==
    [c EXCEPT !.queue_tasks_deferred = Append(@, task),
              !.hist.deferred = @ \cup ({task.id} \cap TaskIds)]

\* pop_deferred_task taking the task deferred last
pop_deferred_task_last(c) ==
    IF c.queue_tasks_deferred # <<>>
    THEN [c EXCEPT !.queue_tasks          = Append(@, c.queue_tasks_deferred[Len(c.queue_tasks_deferred)]),
                   !.queue_tasks_deferred = SubSeq(@, 1, Len(@) - 1)]
    ELSE c

\* server_queue::pop_deferred_task
pop_deferred_task(c) ==
    IF c.queue_tasks_deferred # <<>>
    THEN [c EXCEPT !.queue_tasks          = Append(@, Head(c.queue_tasks_deferred)),
                   !.queue_tasks_deferred = Tail(@)]
    ELSE c

\* an assignment to slot.state, with the change of state recorded in the history
SetState(c, sid, st) ==
    [c EXCEPT !.slots[sid].state = st,
              !.hist.transitions = IF c.slots[sid].state = st THEN @
                                   ELSE @ \cup {<<c.slots[sid].state, st>>}]

\* history: slot sid is the slot released last
released_noted(c, sid) ==
    [c EXCEPT !.hist.released = SelectSeq(@, LAMBDA r : r # sid) \o <<sid>>]

\* server_slot::release, with callback_on_release = pop_deferred_task
release(c, sid) ==
    IF is_processing(c.slots[sid])
    THEN pop_deferred_task(released_noted(SetState(c, sid, SLOT_STATE_IDLE), sid))
    ELSE c

\* server_context::send_error(id_task, ...)
send_error(c, id_task) ==
    send(c, server_task_result(id_task, FALSE, TRUE, "error", <<>>))

\* server_context::send_partial_response
send_partial_response(c, sid, text_to_send) ==
    send(c, server_task_result(c.slots[sid].id_task, FALSE, FALSE, "partial", text_to_send))

\* server_context::send_final_response
send_final_response(c, sid) ==
    send(c, server_task_result(c.slots[sid].id_task, TRUE, FALSE, "final",
                               IF ~c.slots[sid].stream THEN c.slots[sid].generated_text
                               ELSE <<>>))

\* server_context::send_embedding
send_embedding(c, sid) ==
    send(c, server_task_result(c.slots[sid].id_task, TRUE, FALSE, "embedding", <<>>))

\* server_context::send_rerank
send_rerank(c, sid) ==
    send(c, server_task_result(c.slots[sid].id_task, TRUE, FALSE, "rerank", <<>>))

(***************************************************************************)
(* process_token.  An operator that needs an intermediate value more than  *)
(* once takes it as a parameter, so the steps of a function are operators  *)
(* applied one to the result of the other.                                 *)
(***************************************************************************)
STOP_TYPE_FULL    == "FULL"
STOP_TYPE_PARTIAL == "PARTIAL"

\* the slot of c replaced
WithSlot(c, sid, slot) == [c EXCEPT !.slots[sid] = slot]

\* find_stopping_strings, lines 304-313: where word is found in text
word_pos(word, text, last_token_size, type) ==
    IF type = STOP_TYPE_FULL
    THEN StrFind(text, word,
                 IF Len(text) > Len(word) + last_token_size
                 THEN Len(text) - (Len(word) + last_token_size) ELSE 0)
    ELSE find_partial_stop_string(word, text)

\* find_stopping_strings, lines 315-322: acc = [slot, stop_pos] after word
\* was found at pos
stop_at(acc, word, pos, type) ==
    IF pos # npos /\ (acc.stop_pos = npos \/ pos < acc.stop_pos)
    THEN [slot     |-> IF type = STOP_TYPE_FULL
                       THEN [acc.slot EXCEPT !.stopped_word   = TRUE,
                                             !.stopping_word  = word,
                                             !.has_next_token = FALSE]
                       ELSE acc.slot,
          stop_pos |-> pos]
    ELSE acc

\* server_slot::find_stopping_strings, the loop over params.antiprompt from
\* word k on
RECURSIVE find_stopping_strings_from(_, _, _, _, _)
find_stopping_strings_from(acc, text, last_token_size, type, k) ==
    IF k > Len(acc.slot.antiprompt) THEN acc
    ELSE find_stopping_strings_from(
             stop_at(acc, acc.slot.antiprompt[k],
                     word_pos(acc.slot.antiprompt[k], text, last_token_size, type), type),
             text, last_token_size, type, k + 1)

\* server_slot::find_stopping_strings: [slot, stop_pos]
find_stopping_strings(slot, text, last_token_size, type) ==
    find_stopping_strings_from([slot |-> slot, stop_pos |-> npos], text, last_token_size, type, 1)

\* process_token's scan of the last bytes of generated_text for an
\* incomplete UTF-8 character, from the i-th byte from the end
RECURSIVE incomplete_utf8_from(_, _)
incomplete_utf8_from(text, i) ==
    IF ~(i < 5 /\ i <= Len(text)) THEN FALSE
    ELSE IF text[Len(text) - i + 1] >= 128 /\ text[Len(text) - i + 1] < 192
    THEN incomplete_utf8_from(text, i + 1)
    ELSE IF text[Len(text) - i + 1] >= 192 /\ text[Len(text) - i + 1] < 224 THEN i < 2
    ELSE IF text[Len(text) - i + 1] >= 224 /\ text[Len(text) - i + 1] < 240 THEN i < 3
    ELSE IF text[Len(text) - i + 1] >= 240 /\ text[Len(text) - i + 1] < 248 THEN i < 4
    ELSE FALSE

incomplete_utf8(text) == incomplete_utf8_from(text, 1)

\* process_token, lines 1242-1247: the token's piece is appended
token_appended(slot, tok) ==
    [slot EXCEPT !.sampled        = tok,
                 !.generated_text = @ \o llama_token_to_piece(tok),
                 !.has_next_token = TRUE]

\* process_token, line 1272: pos
sent_pos(slot) == Min(slot.n_sent_text, Len(slot.generated_text))

\* process_token, lines 1274-1287: full is the outcome of the search for a
\* full stop string in str_test = generated_text.substr(pos).  The result
\* is [slot, stop_pos, is_stop_full]
stop_searched(full, pos, str_test, last_token_size) ==
    IF full.stop_pos # npos
    THEN [slot         |-> [full.slot EXCEPT !.generated_text = Take(@, pos + full.stop_pos)],
          stop_pos     |-> full.stop_pos,
          is_stop_full |-> TRUE]
    ELSE [slot         |-> full.slot,
          stop_pos     |-> find_stopping_strings(full.slot, str_test, last_token_size,
                                                 STOP_TYPE_PARTIAL).stop_pos,
          is_stop_full |-> FALSE]

\* process_token, lines 1290-1292: result.text_to_send
text_to_send(s) ==
    IF s.stop_pos = npos \/ (~s.slot.has_next_token /\ ~s.is_stop_full /\ s.stop_pos > 0)
    THEN Drop(s.slot.generated_text, sent_pos(s.slot)) ELSE <<>>

\* process_token, lines 1290-1295: [slot, text_to_send]
text_sent(s) ==
    [slot         |-> [s.slot EXCEPT !.n_sent_text = @ + Len(text_to_send(s))],
     text_to_send |-> text_to_send(s)]

\* process_token, lines 1271-1295, for a slot that holds the new token's
\* piece: [slot, text_to_send]
process_token_text(slot, last_token_size) ==
    text_sent(stop_searched(
        find_stopping_strings(slot, Drop(slot.generated_text, sent_pos(slot)),
                              last_token_size, STOP_TYPE_FULL),
        sent_pos(slot), Drop(slot.generated_text, sent_pos(slot)), last_token_size))

\* process_token, lines 1297-1300: the partial result of a streaming slot
process_token_send(c, sid, txt) ==
    IF txt.slot.stream
    THEN send_partial_response(WithSlot(c, sid, txt.slot), sid, txt.text_to_send)
    ELSE WithSlot(c, sid, txt.slot)

\* process_token, lines 1308-1313: the budget
limit_budget(slot) ==
    IF slot.n_decoded > 0 /\ slot.has_next_token
    THEN IF ~has_budget(slot).ok
         THEN [slot EXCEPT !.n_remaining    = has_budget(slot).n_remaining,
                           !.stopped_limit  = TRUE,
                           !.has_next_token = FALSE]
         ELSE [slot EXCEPT !.n_remaining = has_budget(slot).n_remaining]
    ELSE slot

\* process_token, lines 1316-1322: the context limit
limit_ctx(slot) ==
    IF slot.n_decoded >= slot.n_ctx
    THEN [slot EXCEPT !.truncated = TRUE, !.stopped_limit = TRUE, !.has_next_token = FALSE]
    ELSE slot

\* process_token, lines 1324-1329: an end-of-generation token
limit_eog(slot, tok) ==
    IF llama_token_is_eog(tok)
    THEN [slot EXCEPT !.stopped_eos = TRUE, !.has_next_token = FALSE]
    ELSE slot

\* process_token, lines 1331-1342: the training context
limit_train(slot) ==
    IF slot.n_predict < 1 /\ global_n_predict < 1 /\ grp_attn_n = 1
       /\ slot.n_prompt_tokens + slot.n_decoded >= n_ctx_train
    THEN [slot EXCEPT !.truncated = TRUE, !.stopped_limit = TRUE, !.has_next_token = FALSE]
    ELSE slot

\* process_token, lines 1303-1342: the limits
process_token_limits(slot, tok) == limit_train(limit_eog(limit_ctx(limit_budget(slot)), tok))

\* history: a token was processed for a task whose CANCEL was processed
note_token(c, sid) ==
    [c EXCEPT !.hist.late_tokens =
                  IF c.slots[sid].id_task \in c.hist.cancel_processed
                  THEN @ \cup {c.slots[sid].id_task} ELSE @]

\* process_token for the slot slot0 that holds the new token's piece
process_token_from(c, sid, slot0, tok) ==
    IF incomplete_utf8(slot0.generated_text)
    THEN WithSlot(c, sid, process_token_limits([slot0 EXCEPT !.has_next_token = TRUE], tok))
    ELSE [process_token_send(c, sid, process_token_text(slot0, Len(llama_token_to_piece(tok))))
             EXCEPT !.slots[sid] = process_token_limits(@, tok)]

\* server_context::process_token; the result is c, and the slot's
\* has_next_token is the value returned
process_token(c, sid, tok) ==
    note_token(process_token_from(c, sid, token_appended(c.slots[sid], tok), tok), sid)

(***************************************************************************)
(* process_single_task                                                     *)
(***************************************************************************)
\* server_context::get_slot_by_id: a slot id, or -1 for nullptr
get_slot_by_id(c, id_slot) == IF id_slot \in SlotIds THEN id_slot ELSE -1

\* similar_slot taking the first slot that passes the threshold
similar_slot_first(slot, prompt, acc) ==
    /\ ~is_processing(slot)
    /\ slot.prompt.kind = "string"
    /\ slot.prompt.toks # <<>>
    /\ acc.ret = -1
    /\ common_part(slot.prompt.toks, prompt) * similarity_den
           > Len(slot.prompt.toks) * similarity_num

\* get_available_slot, lines 924-949: slot sid is the best match so far
similar_slot(slot, prompt, acc) ==
    /\ ~is_processing(slot)
    /\ slot.prompt.kind = "string"
    /\ slot.prompt.toks # <<>>
    /\ common_part(slot.prompt.toks, prompt) > acc.max_lcp_len
    /\ common_part(slot.prompt.toks, prompt) * similarity_den
           > Len(slot.prompt.toks) * similarity_num

\* get_available_slot, lines 918-955: the loop over the slots from slot sid
\* on; acc = [ret, max_lcp_len].  A string is the sequence of the tokens of
\* its text; similarity > slot_prompt_similarity is compared exactly
RECURSIVE similar_slot_from(_, _, _, _)
similar_slot_from(c, prompt, sid, acc) ==
    IF sid >= n_parallel THEN acc
    ELSE similar_slot_from(c, prompt, sid + 1,
             IF similar_slot(c.slots[sid], prompt, acc)
             THEN [ret |-> sid, max_lcp_len |-> common_part(c.slots[sid].prompt.toks, prompt)]
             ELSE acc)

\* get_available_slot, lines 958-976: t_last_used is -1 in every slot and is
\* never assigned, so every slot that is not processing passes
\* t_last_used < t_last once, and the first one is taken
lru_slot(c) ==
    IF \A s \in SlotIds : is_processing(c.slots[s]) THEN -1
    ELSE CHOOSE s \in SlotIds :
             /\ ~is_processing(c.slots[s])
             /\ \A r \in SlotIds : ~is_processing(c.slots[r]) => s <= r

\* get_available_slot: sim is the slot chosen by similarity
similar_or_lru(c, sim) == IF sim # -1 THEN sim ELSE lru_slot(c)

\* server_context::get_available_slot; prompt is the request's prompt when
\* it is a string, else the empty string.  -1 stands for nullptr
get_available_slot(c, prompt) ==
    similar_or_lru(c, IF similarity_num # 0 /\ prompt # <<>>
                      THEN similar_slot_from(c, prompt, 0, [ret |-> -1, max_lcp_len |-> 0]).ret
                      ELSE -1)

\* launch_slot_with_task, the prompt check of lines 1061-1087
prompt_accepted(task) ==
    \/ task.cmpl_type = SERVER_TASK_CMPL_TYPE_INFILL
    \/ task.data.prompt.kind \in {"string", "tokens", "pair"}

\* launch_slot_with_task, lines 997-1026: the parameters stored before the
\* grammar is looked at
slot_params(slot, data) ==
    [slot EXCEPT !.stream       = data.stream,
                 !.cache_prompt = data.cache_prompt,
                 !.n_predict    = data.n_predict,
                 !.n_keep       = data.n_keep,
                 !.n_discard    = data.n_discard,
                 !.spec_n_max   = data.spec_n_max]

\* launch_slot_with_task, lines 1045-1058: stored before the prompt is
\* looked at
slot_infill(slot, data) ==
    [slot EXCEPT !.cache_prompt = IF @ /\ grp_attn_n # 1 THEN FALSE ELSE @,
                 !.input_prefix = data.input_prefix,
                 !.input_suffix = data.input_suffix]

\* launch_slot_with_task, lines 1061-1138: the prompt (not for infill) and
\* the stop strings, stored before the sampler is built
slot_prompt(slot, task) ==
    [slot EXCEPT !.prompt     = IF task.cmpl_type # SERVER_TASK_CMPL_TYPE_INFILL
                                THEN task.data.prompt ELSE @,
                 !.antiprompt = task.data.antiprompt]

\* launch_slot_with_task returns false after send_error: [c, ok]
launch_rejected(c, sid, slot, task) ==
    [c |-> send_error(WithSlot(c, sid, slot), task.id), ok |-> FALSE]

\* server_context::launch_slot_with_task: [c, ok]
launch_slot_with_task(c, sid, task) ==
    IF task.data.both_grammars \/ ~task.data.schema_ok
    THEN launch_rejected(c, sid, slot_params(c.slots[sid], task.data), task)
    ELSE IF ~prompt_accepted(task)
    THEN launch_rejected(c, sid, slot_infill(slot_params(c.slots[sid], task.data), task.data),
                         task)
    ELSE IF ~task.data.sampler_ok
    THEN launch_rejected(c, sid,
             slot_prompt(slot_infill(slot_params(c.slots[sid], task.data), task.data), task),
             task)
    ELSE [c  |-> [SetState(WithSlot(c, sid,
                      [slot_prompt(slot_infill(slot_params(c.slots[sid], task.data),
                                               task.data), task)
                          EXCEPT !.prompt_tokens = <<>>, !.batch_spec = <<>>,
                                 !.admitted = FALSE]),
                           sid, SLOT_STATE_PROCESSING_PROMPT)
                     EXCEPT !.hist.launched = @ \cup {task.id}],
          ok |-> TRUE]

\* server_context::system_prompt_set: release all slots, from slot sid on
RECURSIVE release_all_from(_, _)
release_all_from(c, sid) ==
    IF sid >= n_parallel THEN c ELSE release_all_from(release(c, sid), sid + 1)

system_prompt_set(c, sys_prompt) ==
    [release_all_from([c EXCEPT !.system_prompt = sys_prompt], 0)
        EXCEPT !.system_need_update = TRUE]

\* process_single_task, lines 1762-1770: "system_prompt" of the request
task_system_prompt(c, task) ==
    IF task.data.system_prompt.present
    THEN [system_prompt_set(c, task.data.system_prompt.text)
             EXCEPT !.slots = [s \in SlotIds |-> [@[s] EXCEPT !.n_past = 0]]]
    ELSE c

\* task_assigned with the assignment of id_task forgotten
task_assigned_without_id(c, sid, task) ==
    [c EXCEPT !.slots[sid] = [reset(@) EXCEPT !.cmpl_type = task.cmpl_type,
                                              !.index     = 0]]

\* process_single_task, lines 1772-1776: the slot is reset and given the task
task_assigned(c, sid, task) ==
    [c EXCEPT !.slots[sid] = [reset(@) EXCEPT !.id_task   = task.id,
                                              !.cmpl_type = task.cmpl_type,
                                              !.index     = 0]]

\* process_completion_on without the check that the slot is processing
process_completion_on_busy(c, sid, task) ==
    IF sid = -1 THEN defer(c, task)
    ELSE launch_slot_with_task(task_assigned(task_system_prompt(c, task), sid, task),
                               sid, task).c

\* process_single_task, lines 1732-1782, with the slot chosen (-1: nullptr)
process_completion_on(c, sid, task) ==
    IF sid = -1 THEN defer(c, task)
    ELSE IF is_processing(c.slots[sid]) THEN defer(c, task)
    ELSE launch_slot_with_task(task_assigned(task_system_prompt(c, task), sid, task),
                               sid, task).c

\* process_single_task, case SERVER_TASK_TYPE_COMPLETION
process_completion(c, task) ==
    process_completion_on(c,
        IF task.data.id_slot # -1 THEN get_slot_by_id(c, task.data.id_slot)
        ELSE get_available_slot(c, IF task.data.prompt.kind = "string"
                                   THEN task.data.prompt.toks ELSE <<>>),
        task)

\* process_single_task, case SERVER_TASK_TYPE_CANCEL: the first slot whose
\* id_task is the target, -1 when there is none
cancel_target(c, id_target) ==
    IF \A s \in SlotIds : c.slots[s].id_task # id_target THEN -1
    ELSE CHOOSE s \in SlotIds :
             /\ c.slots[s].id_task = id_target
             /\ \A r \in SlotIds : c.slots[r].id_task = id_target => s <= r

\* history: the CANCEL task of a posted task is processed
cancel_noted(c, task) ==
    [c EXCEPT !.hist.cancel_processed = @ \cup ({task.id_target} \cap c.hist.posted)]

\* process_single_task, case SERVER_TASK_TYPE_CANCEL
process_cancel(c, task) ==
    IF cancel_target(c, task.id_target) = -1
    THEN cancel_noted(c, task)
    ELSE release(cancel_noted(c, task), cancel_target(c, task.id_target))

\* process_single_task, case SERVER_TASK_TYPE_SLOT_SAVE
process_slot_save(c, task) ==
    IF get_slot_by_id(c, task.data.id_slot) = -1 THEN send_error(c, task.id)
    ELSE IF is_processing(c.slots[get_slot_by_id(c, task.data.id_slot)]) THEN defer(c, task)
    ELSE send(c, server_task_result(task.id, TRUE, FALSE, "slot_save", <<>>))

\* process_single_task, case SERVER_TASK_TYPE_SLOT_RESTORE
process_slot_restore(c, task) ==
    IF get_slot_by_id(c, task.data.id_slot) = -1 THEN send_error(c, task.id)
    ELSE IF is_processing(c.slots[get_slot_by_id(c, task.data.id_slot)]) THEN defer(c, task)
    ELSE IF ~task.data.file_ok
    THEN send_error([c EXCEPT !.slots[task.data.id_slot].cache_tokens = <<>>], task.id)
    ELSE send([c EXCEPT !.slots[task.data.id_slot].cache_tokens = task.data.file_tokens],
              server_task_result(task.id, TRUE, FALSE, "slot_restore", <<>>))

\* process_single_task, case SERVER_TASK_TYPE_SLOT_ERASE
process_slot_erase(c, task) ==
    IF get_slot_by_id(c, task.data.id_slot) = -1 THEN send_error(c, task.id)
    ELSE IF is_processing(c.slots[get_slot_by_id(c, task.data.id_slot)]) THEN defer(c, task)
    ELSE send([c EXCEPT !.slots[task.data.id_slot].cache_tokens = <<>>],
              server_task_result(task.id, TRUE, FALSE, "slot_erase", <<>>))

\* server_context::process_single_task
process_single_task(c, task) ==
    CASE task.type = SERVER_TASK_TYPE_COMPLETION    -> process_completion(c, task)
      [] task.type = SERVER_TASK_TYPE_CANCEL        -> process_cancel(c, task)
      [] task.type = SERVER_TASK_TYPE_NEXT_RESPONSE -> c
      [] task.type = SERVER_TASK_TYPE_SLOT_SAVE     -> process_slot_save(c, task)
      [] task.type = SERVER_TASK_TYPE_SLOT_RESTORE  -> process_slot_restore(c, task)
      [] task.type = SERVER_TASK_TYPE_SLOT_ERASE    -> process_slot_erase(c, task)

(***************************************************************************)
(* update_slots: composing the batch                                       *)
(***************************************************************************)
\* ::llama_tokenize(ctx, text, add_special): BOS first when the model asks for it
llama_tokenize(text, add_special) ==
    (IF add_special /\ add_bos_token THEN <<TOK_BOS>> ELSE <<>>) \o text

\* server_context::tokenize(json_prompt, add_special)
tokenize(json_prompt, add_special) ==
    CASE json_prompt.kind = "tokens" -> json_prompt.toks
      [] json_prompt.kind = "pair"   -> llama_tokenize(<<>>, add_special) \o llama_tokenize(<<>>, FALSE)
      [] OTHER                       -> llama_tokenize(json_prompt.toks, add_special)

\* server_context::system_prompt_update; ret is what llama_decode returns
\* for the system prompt's batch
system_prompt_update(c, ret) ==
    IF c.system_prompt = <<>>
    THEN [c EXCEPT !.system_tokens = <<>>, !.system_need_update = FALSE]
    ELSE IF ret # 0 THEN [c EXCEPT !.system_tokens = llama_tokenize(c.system_prompt, TRUE)]
    ELSE [c EXCEPT !.system_tokens = llama_tokenize(c.system_prompt, TRUE),
                   !.system_need_update = FALSE]

\* llama_batch_add
llama_batch_add(c, token, pos, seq_id, logits) ==
    [c EXCEPT !.batch = Append(@, [token |-> token, pos |-> pos, seq_id |-> seq_id,
                                   logits |-> logits])]

\* update_slots, lines 2057-2063: the entries of cache_tokens after the
\* discarded window move down by n_discard (0 <= n_discard <= size)
shift_cache(cache, n_keep, n_discard) ==
    Resize([k \in 1 .. Len(cache) |->
               IF k - 1 >= n_keep /\ k + n_discard <= Len(cache)
               THEN cache[k + n_discard] ELSE cache[k]],
           Len(cache) - n_discard)

\* update_slots, lines 2045-2047: n_discard of the shift, with n_sys system tokens
shift_n_discard(slot, n_sys) ==
    IF slot.n_discard # 0 THEN slot.n_discard
    ELSE CDiv(n_sys + slot.n_past - (slot.n_keep + (IF add_bos_token THEN 1 ELSE 0)), 2)

\* shifted with the discarded window n_discard tokens further on
shifted_late(slot, n_discard) ==
    [slot EXCEPT !.cache_tokens =
                      IF slot.cache_prompt
                      THEN shift_cache(@, slot.n_keep + (IF add_bos_token THEN 1 ELSE 0)
                                              + n_discard,
                                       n_discard)
                      ELSE @,
                 !.n_past    = @ - n_discard,
                 !.truncated = TRUE]

\* update_slots, lines 2057-2067: the slot after a shift by n_discard
shifted(slot, n_discard) ==
    [slot EXCEPT !.cache_tokens =
                      IF slot.cache_prompt
                      THEN shift_cache(@, slot.n_keep + (IF add_bos_token THEN 1 ELSE 0),
                                       n_discard)
                      ELSE @,
                 !.n_past    = @ - n_discard,
                 !.truncated = TRUE]

\* update_slots, lines 2033-2070, for slot sid: the context shift
context_shift(c, sid) ==
    IF ~(/\ grp_attn_n = 1
         /\ is_processing(c.slots[sid])
         /\ Len(c.system_tokens) + c.slots[sid].n_past >= c.slots[sid].n_ctx - 1)
    THEN c
    ELSE IF ~cfg.ctx_shift THEN send_error(release(c, sid), c.slots[sid].id_task)
    ELSE [c EXCEPT !.slots[sid] = shifted(@, shift_n_discard(@, Len(c.system_tokens)))]

RECURSIVE context_shift_from(_, _)
context_shift_from(c, sid) ==
    IF sid >= n_parallel THEN c ELSE context_shift_from(context_shift(c, sid), sid + 1)

\* update_slots, lines 2076-2097, for slot sid: the sampled token of a
\* generating slot enters the batch
add_sampled(c, sid) ==
    IF c.slots[sid].state # SLOT_STATE_GENERATING THEN c
    ELSE [llama_batch_add(c, c.slots[sid].sampled,
                          Len(c.system_tokens) + c.slots[sid].n_past, sid + 1, TRUE)
             EXCEPT !.slots[sid].i_batch = Len(c.batch),
                    !.slots[sid].n_past  = @ + 1,
                    !.slots[sid].cache_tokens =
                         IF c.slots[sid].cache_prompt
                         THEN Append(@, c.slots[sid].sampled) ELSE @]

RECURSIVE add_sampled_from(_, _)
add_sampled_from(c, sid) ==
    IF sid >= n_parallel THEN c ELSE add_sampled_from(add_sampled(c, sid), sid + 1)

\* update_slots, lines 2123-2154: the tokens of an infill prompt
infill_tokens(slot) ==
    (IF add_bos_token THEN <<TOK_BOS>> ELSE <<>>)
        \o <<TOK_PREFIX>> \o llama_tokenize(slot.input_prefix, FALSE)
        \o <<TOK_SUFFIX>> \o llama_tokenize(slot.input_suffix, FALSE)
        \o <<TOK_MIDDLE>>

\* update_slots, lines 2164-2177: the tokens of a rerank prompt ["", ""]
rerank_tokens(slot) ==
    <<TOK_BOS>> \o llama_tokenize(<<>>, FALSE) \o <<TOK_EOS, TOK_SEP>>
        \o llama_tokenize(<<>>, FALSE) \o <<TOK_EOS>>

\* update_slots, lines 2123-2180: the prompt's tokens
slot_tokens(c, slot) ==
    CASE slot.cmpl_type = SERVER_TASK_CMPL_TYPE_INFILL -> infill_tokens(slot)
      [] slot.cmpl_type = SERVER_TASK_CMPL_TYPE_RERANK -> rerank_tokens(slot)
      [] OTHER -> tokenize(slot.prompt, c.system_prompt = <<>>)

\* update_slots, lines 2219-2233: new_tokens of a prompt of n_ctx tokens or
\* more, with n_block_size = n_left / 2
truncate_blocks(prompt_tokens, n_keep, n_block_size) ==
    Take(prompt_tokens, n_keep)
        \o Drop(prompt_tokens,
                n_keep + CDiv(Len(prompt_tokens) - n_keep - n_block_size, n_block_size)
                         * n_block_size)

truncate_prompt(prompt_tokens, n_keep, n_ctx) ==
    truncate_blocks(prompt_tokens, n_keep, CDiv(n_ctx - n_keep, 2))

\* an embedding or rerank slot
is_embd(slot) ==
    slot.cmpl_type \in {SERVER_TASK_CMPL_TYPE_EMBEDDING, SERVER_TASK_CMPL_TYPE_RERANK}

\* update_slots, lines 2182-2183
tokens_set(slot, toks) ==
    [slot EXCEPT !.prompt_tokens = toks, !.n_past = 0, !.n_prompt_tokens = Len(toks),
                 !.n_new = IF common_part(slot.cache_tokens, toks) = Len(slot.cache_tokens)
                           THEN Len(toks) - Len(slot.cache_tokens) ELSE -1]

\* update_slots, lines 2213-2216
keep_clamped(slot, n_sys) ==
    [slot EXCEPT !.n_keep = Min(slot.n_ctx - 4,
                                IF @ < 0 THEN n_sys + slot.n_prompt_tokens + 3 ELSE @)]

\* update_slots, line 2219: the prompt is truncated
too_long(slot) == grp_attn_n = 1 /\ slot.n_prompt_tokens >= slot.n_ctx

\* update_slots, lines 2219-2241
truncated_slot(slot) ==
    IF too_long(slot)
    THEN [slot EXCEPT !.prompt_tokens   = truncate_prompt(@, slot.n_keep, slot.n_ctx),
                      !.truncated       = TRUE,
                      !.n_prompt_tokens = Len(truncate_prompt(slot.prompt_tokens, slot.n_keep,
                                                              slot.n_ctx))]
    ELSE slot

\* cache_reused with nothing reused
cache_reused_nothing(slot) == slot

\* update_slots, lines 2245-2258
cache_reused(slot) ==
    IF ~slot.cache_prompt THEN slot
    ELSE [slot EXCEPT !.n_past = common_part(slot.cache_tokens, slot.prompt_tokens)]

\* update_slots, lines 2261-2271
\* prompt_started with n_past left at n_prompt_tokens when the cache covers
\* the whole prompt
prompt_started_covered(slot) == [slot EXCEPT !.n_prompt_tokens_processed = 0]

prompt_started(slot) ==
    [slot EXCEPT !.n_past = IF @ = slot.n_prompt_tokens /\ @ > 0 THEN @ - 1 ELSE @,
                 !.n_prompt_tokens_processed = 0]

\* update_slots, lines 2213-2271 for a prompt that is decoded; clamped is
\* the slot after lines 2213-2216
decoding_prompt(c, sid, clamped) ==
    [c EXCEPT !.slots[sid] = prompt_started(cache_reused(truncated_slot(clamped))),
              !.hist.assert_failed =
                  @ \/ (too_long(clamped)
                           /\ truncated_slot(clamped).n_prompt_tokens >= clamped.n_ctx),
              !.hist.out_of_range = @ \/ (too_long(clamped) /\ clamped.n_keep < 0)]

\* tokenized with the slot of an empty prompt left as it is
tokenized_unreleased(c, sid, toks) ==
    IF toks = <<>>
    THEN [c    |-> send_final_response(WithSlot(c, sid, tokens_set(c.slots[sid], toks)), sid),
          skip |-> TRUE]
    ELSE IF \/ is_embd(c.slots[sid]) /\ Len(toks) > n_ubatch_cfg
            \/ /\ ~is_embd(c.slots[sid])
               /\ ~cfg.ctx_shift
               /\ Len(c.system_tokens) + Len(toks) >= c.slots[sid].n_ctx
    THEN [c    |-> send_error(release(WithSlot(c, sid, tokens_set(c.slots[sid], toks)), sid),
                              c.slots[sid].id_task),
          skip |-> TRUE]
    ELSE IF is_embd(c.slots[sid])
    THEN [c    |-> WithSlot(c, sid, prompt_started(tokens_set(c.slots[sid], toks))),
          skip |-> FALSE]
    ELSE [c    |-> decoding_prompt(c, sid, keep_clamped(tokens_set(c.slots[sid], toks),
                                                        Len(c.system_tokens))),
          skip |-> FALSE]

\* update_slots, lines 2182-2272 with the prompt's tokens toks: [c, skip];
\* skip is the `continue` of the loop over the slots
tokenized(c, sid, toks) ==
    IF toks = <<>>
    THEN [c    |-> send_final_response(release(WithSlot(c, sid, tokens_set(c.slots[sid], toks)),
                                               sid), sid),
          skip |-> TRUE]
    ELSE IF \/ is_embd(c.slots[sid]) /\ Len(toks) > n_ubatch_cfg
            \/ /\ ~is_embd(c.slots[sid])
               /\ ~cfg.ctx_shift
               /\ Len(c.system_tokens) + Len(toks) >= c.slots[sid].n_ctx
    THEN [c    |-> send_error(release(WithSlot(c, sid, tokens_set(c.slots[sid], toks)), sid),
                              c.slots[sid].id_task),
          skip |-> TRUE]
    ELSE IF is_embd(c.slots[sid])
    THEN [c    |-> WithSlot(c, sid, prompt_started(tokens_set(c.slots[sid], toks))),
          skip |-> FALSE]
    ELSE [c    |-> decoding_prompt(c, sid, keep_clamped(tokens_set(c.slots[sid], toks),
                                                        Len(c.system_tokens))),
          skip |-> FALSE]

\* update_slots, lines 2117-2272, for a PROCESSING_PROMPT slot whose prompt
\* is not tokenized yet: [c, skip]
tokenize_slot(c, sid) ==
    IF c.slots[sid].cmpl_type = SERVER_TASK_CMPL_TYPE_RERANK /\ c.slots[sid].prompt.kind # "pair"
    THEN [c |-> send_error(release(c, sid), c.slots[sid].id_task), skip |-> TRUE]
    ELSE tokenized(c, sid, slot_tokens(c, c.slots[sid]))

\* update_slots, lines 2339-2346: one token of the prompt enters the batch
prompt_token_added(c, sid, tok) ==
    [llama_batch_add(c, tok, Len(c.system_tokens) + c.slots[sid].n_past, sid + 1, FALSE)
        EXCEPT !.slots[sid].cache_tokens =
                    IF c.slots[sid].cache_prompt THEN Append(@, tok) ELSE @,
               !.slots[sid].n_prompt_tokens_processed = @ + 1,
               !.slots[sid].n_past = @ + 1]

\* update_slots, lines 2330-2347: the prompt's tokens enter the batch while
\* there is room
RECURSIVE add_prompt_tokens(_, _, _)
add_prompt_tokens(c, sid, n_batch) ==
    IF ~(c.slots[sid].n_past < c.slots[sid].n_prompt_tokens /\ Len(c.batch) < n_batch) THEN c
    ELSE add_prompt_tokens(
             prompt_token_added(c, sid, c.slots[sid].prompt_tokens[c.slots[sid].n_past + 1]),
             sid, n_batch)

\* prompt_done with the slot sent to GENERATING directly
prompt_done_generating(c, sid) ==
    IF c.slots[sid].n_past = c.slots[sid].n_prompt_tokens
    THEN [SetState(c, sid, SLOT_STATE_GENERATING) EXCEPT
             !.batch = [k \in 1 .. Len(c.batch) |->
                           IF k = Len(c.batch) THEN [c.batch[k] EXCEPT !.logits = TRUE]
                           ELSE c.batch[k]],
             !.slots[sid].n_decoded = 0,
             !.slots[sid].i_batch   = Len(c.batch) - 1,
             !.hist.assert_failed   = @ \/ Len(c.batch) = 0]
    ELSE c

\* update_slots, lines 2352-2364: the entire prompt has been processed
prompt_done(c, sid) ==
    IF c.slots[sid].n_past = c.slots[sid].n_prompt_tokens
    THEN [SetState(c, sid, SLOT_STATE_DONE_PROMPT) EXCEPT
             !.batch = [k \in 1 .. Len(c.batch) |->
                           IF k = Len(c.batch) THEN [c.batch[k] EXCEPT !.logits = TRUE]
                           ELSE c.batch[k]],
             !.slots[sid].n_decoded = 0,
             !.slots[sid].i_batch   = Len(c.batch) - 1,
             !.hist.assert_failed   = @ \/ Len(c.batch) = 0]
    ELSE c

\* admit_slot without cache_tokens.resize(n_past)
admit_slot_without_resize(c, sid, n_batch) ==
    IF is_embd(c.slots[sid]) /\ Len(c.batch) + c.slots[sid].n_prompt_tokens > n_batch THEN c
    ELSE IF c.batch_type # -1 /\ c.batch_type # (IF is_embd(c.slots[sid]) THEN 1 ELSE 0) THEN c
    ELSE prompt_done(
             add_prompt_tokens(
                 [c EXCEPT !.batch_type = IF is_embd(c.slots[sid]) THEN 1 ELSE 0,
                           !.slots[sid].admitted = TRUE],
                 sid, n_batch),
             sid)

\* update_slots, lines 2274-2364, for a PROCESSING_PROMPT slot whose prompt
\* is tokenized: the slot is skipped, or admitted to the batch
admit_slot(c, sid, n_batch) ==
    IF is_embd(c.slots[sid]) /\ Len(c.batch) + c.slots[sid].n_prompt_tokens > n_batch THEN c
    ELSE IF c.batch_type # -1 /\ c.batch_type # (IF is_embd(c.slots[sid]) THEN 1 ELSE 0) THEN c
    ELSE prompt_done(
             add_prompt_tokens(
                 [c EXCEPT !.batch_type = IF is_embd(c.slots[sid]) THEN 1 ELSE 0,
                           !.slots[sid].cache_tokens = Resize(@, c.slots[sid].n_past),
                           !.slots[sid].admitted = TRUE],
                 sid, n_batch),
             sid)

\* update_slots, lines 2117-2364: t is what tokenize_slot returned
admit_tokenized(t, sid, n_batch) == IF t.skip THEN t.c ELSE admit_slot(t.c, sid, n_batch)

\* update_slots, lines 2113-2365: one slot of the loop over the slots
prompt_slot(c, sid, n_batch) ==
    IF c.slots[sid].state # SLOT_STATE_PROCESSING_PROMPT THEN c
    ELSE IF c.slots[sid].prompt_tokens = <<>>
    THEN admit_tokenized(tokenize_slot(c, sid), sid, n_batch)
    ELSE admit_slot(c, sid, n_batch)

\* update_slots, lines 2111-2370: the loop over the slots, from slot sid on;
\* prompt_slots_next is the end of the loop's body (lines 2367-2369)
RECURSIVE prompt_slots_from(_, _, _)
RECURSIVE prompt_slots_next(_, _, _)
prompt_slots_next(c, sid, n_batch) ==
    IF Len(c.batch) >= n_batch THEN c ELSE prompt_slots_from(c, sid + 1, n_batch)

prompt_slots_from(c, sid, n_batch) ==
    IF sid >= n_parallel THEN c
    ELSE prompt_slots_next(prompt_slot(c, sid, n_batch), sid, n_batch)

\* update_slots, lines 2022-2030
post_next_response(c) ==
    [c EXCEPT !.queue_tasks =
                  post(@, server_task(-1, SERVER_TASK_TYPE_NEXT_RESPONSE, -1,
                                      SERVER_TASK_CMPL_TYPE_NORMAL, NoData), FALSE)]

\* batch_typed with the type left open when the batch holds sampled tokens
batch_untyped(c) == [c EXCEPT !.batch_type = -1]

\* update_slots, line 2107
batch_typed(c) == [c EXCEPT !.batch_type = IF Len(c.batch) > 0 THEN 0 ELSE -1]

\* update_slots, lines 2110-2371
prompts_batched(c) ==
    IF cfg.cont_batching \/ Len(c.batch) = 0 THEN prompt_slots_from(c, 0, n_batch_cfg) ELSE c

\* update_slots, lines 2373-2376: [c, decode]
batch_composed(c) == [c |-> c, decode |-> Len(c.batch) > 0]

\* update_slots, lines 2001-2381, after the system prompt's update
slots_updated(c) ==
    IF \A s \in SlotIds : ~is_processing(c.slots[s])
    THEN [c |-> c, decode |-> FALSE]
    ELSE batch_composed(prompts_batched(batch_typed(
             add_sampled_from([context_shift_from(post_next_response(c), 0)
                                  EXCEPT !.batch = <<>>], 0))))

\* update_slots up to the decode loop (lines 1996-2381); sys_ret is what
\* llama_decode returns for the system prompt.  The result is [c, decode]:
\* decode is FALSE when update_slots returns before the decode loop
update_slots_compose(c, sys_ret) ==
    slots_updated(IF c.system_need_update THEN system_prompt_update(c, sys_ret) ELSE c)

(***************************************************************************)
(* update_slots: the decode loop                                           *)
(***************************************************************************)
has_draft_model == TRUE   \* slot.ctx_dft: a draft model is loaded

\* server_slot::can_speculate
can_speculate(slot) == has_draft_model /\ slot.spec_n_max > 0 /\ slot.cache_prompt

\* common_speculative_gen_draft: a draft of n_max tokens
Draft(n_max) == [k \in 1 .. n_max |-> TOK_A]

\* what gpt_sampler_sample_and_accept_n may return for a draft: an accepted
\* prefix of the draft followed by one token of the target sampler (which
\* differs from the draft's token at the place where the draft is rejected)
AcceptedIds(draft) ==
    {Take(draft, k) \o <<t>> : k \in 0 .. Len(draft), t \in SampleVocab} \
        {Take(draft, k + 1) : k \in 0 .. (Len(draft) - 1)}

\* the speculative step's outcomes for a slot: <<>> stands for a draft
\* shorter than speculative.n_min, which skips the step
SpecChoices(slot) == {<<>>} \cup AcceptedIds(Draft(slot.spec_n_max))

\* update_slots, lines 2512-2515 and 2566-2569: the slot stops
slot_stopped(c, sid) == send_final_response(release(c, sid), sid)

\* update_slots, lines 2559-2572: process_token for the accepted tokens,
\* from the k-th on; process_accepted_next is the loop's body after
\* process_token
RECURSIVE process_accepted(_, _, _, _)
RECURSIVE process_accepted_next(_, _, _, _)
process_accepted_next(c, sid, ids, k) ==
    IF ~c.slots[sid].has_next_token THEN slot_stopped(c, sid)
    ELSE process_accepted(c, sid, ids, k + 1)

process_accepted(c, sid, ids, k) ==
    IF k > Len(ids) THEN c
    ELSE process_accepted_next(process_token(c, sid, ids[k]), sid, ids, k)

\* update_slots, lines 2538-2543: the speculative batch of the sampled token
\* tok and the draft
speculation_batch(slot, tok, draft) ==
    <<[token |-> tok, pos |-> slot.n_past, seq_id |-> slot.id + 1, logits |-> TRUE]>>
        \o [i \in 1 .. Len(draft) |->
               [token |-> draft[i], pos |-> slot.n_past + 1 + (i - 1),
                seq_id |-> slot.id + 1, logits |-> TRUE]]

\* update_slots, lines 2537-2572: the speculative step with accepted tokens ids
speculative_step(c, sid, tok, ids) ==
    process_accepted(
        [c EXCEPT !.slots[sid].batch_spec =
                      speculation_batch(c.slots[sid], tok, Draft(c.slots[sid].spec_n_max)),
                  !.slots[sid].n_past    = @ + Len(ids),
                  !.slots[sid].n_decoded = @ + Len(ids),
                  !.slots[sid].cache_tokens = Append(@, tok) \o Take(ids, Len(ids) - 1)],
        sid, ids, 1)

\* update_slots, lines 2510-2575: after process_token of the sampled token
token_sampled(c, sid, tok, ids) ==
    IF ~c.slots[sid].has_next_token THEN slot_stopped(c, sid)
    ELSE IF ~can_speculate(c.slots[sid]) \/ ids = <<>> THEN c
    ELSE speculative_step(c, sid, tok, ids)

\* update_slots, lines 2475-2492: the slot is GENERATING and counts the token
token_counted(c, sid) ==
    [(IF c.slots[sid].state = SLOT_STATE_DONE_PROMPT
      THEN SetState(c, sid, SLOT_STATE_GENERATING) ELSE c)
        EXCEPT !.slots[sid].i_batch = -1, !.slots[sid].n_decoded = @ + 1]

\* update_slots, lines 2454-2576, for slot sid after a successful decode of
\* the tokens [i, i + n_tokens) of the batch; tok is the sampled token and
\* ids the outcome of the speculative step
sample_slot(c, sid, i, n_tokens, tok, ids) ==
    IF c.slots[sid].i_batch < i \/ c.slots[sid].i_batch >= i + n_tokens THEN c
    ELSE IF /\ c.slots[sid].state = SLOT_STATE_DONE_PROMPT
            /\ c.slots[sid].cmpl_type = SERVER_TASK_CMPL_TYPE_EMBEDDING
    THEN [release(send_embedding(c, sid), sid) EXCEPT !.slots[sid].i_batch = -1]
    ELSE IF /\ c.slots[sid].state = SLOT_STATE_DONE_PROMPT
            /\ c.slots[sid].cmpl_type = SERVER_TASK_CMPL_TYPE_RERANK
    THEN [release(send_rerank(c, sid), sid) EXCEPT !.slots[sid].i_batch = -1]
    ELSE IF c.slots[sid].state \notin {SLOT_STATE_DONE_PROMPT, SLOT_STATE_GENERATING} THEN c
    ELSE token_sampled(process_token(token_counted(c, sid), sid, tok), sid, tok, ids)

RECURSIVE sample_slots_from(_, _, _, _, _, _)
sample_slots_from(c, sid, i, n_tokens, samp, spec) ==
    IF sid >= n_parallel THEN c
    ELSE sample_slots_from(sample_slot(c, sid, i, n_tokens, samp[sid], spec[sid]),
                           sid + 1, i, n_tokens, samp, spec)

\* update_slots, lines 2438-2441: the fatal path, from slot sid on
RECURSIVE fail_all_from(_, _)
fail_all_from(c, sid) ==
    IF sid >= n_parallel THEN c
    ELSE fail_all_from(send_error(release(c, sid), c.slots[sid].id_task), sid + 1)

\* decode_step with the retry that does not rewind i (i -= n_batch left out)
decode_step_without_rewind(c, d, ret, samp, spec) ==
    IF ret # 0
    THEN IF d.n_batch = 1 \/ ret < 0
         THEN [c |-> fail_all_from(c, 0), i |-> d.i, n_batch |-> d.n_batch, done |-> TRUE]
         ELSE [c |-> c, i |-> d.i + d.n_batch \div 2, n_batch |-> d.n_batch \div 2,
               done |-> d.i + d.n_batch \div 2 >= Len(c.batch)]
    ELSE [c       |-> sample_slots_from(c, 0, d.i, Min(d.n_batch, Len(c.batch) - d.i),
                                        samp, spec),
          i       |-> d.i + d.n_batch,
          n_batch |-> d.n_batch,
          done    |-> d.i + d.n_batch >= Len(c.batch)]

\* one iteration of the decode loop (lines 2384-2577).  d = [i, n_batch]
\* are the loop's variables and ret is what llama_decode returns.  The
\* result is [c, i, n_batch, done]
decode_step(c, d, ret, samp, spec) ==
    IF ret # 0
    THEN IF d.n_batch = 1 \/ ret < 0
         THEN [c |-> fail_all_from(c, 0), i |-> d.i, n_batch |-> d.n_batch, done |-> TRUE]
         ELSE [c |-> c, i |-> d.i, n_batch |-> d.n_batch \div 2, done |-> FALSE]
    ELSE [c       |-> sample_slots_from(c, 0, d.i, Min(d.n_batch, Len(c.batch) - d.i),
                                        samp, spec),
          i       |-> d.i + d.n_batch,
          n_batch |-> d.n_batch,
          done    |-> d.i + d.n_batch >= Len(c.batch)]

\* the slots that sample a token after a successful decode of [i, i + n_tokens)
samples(slot, i, n_tokens) ==
    /\ slot.i_batch >= i /\ slot.i_batch < i + n_tokens
    /\ \/ slot.state = SLOT_STATE_GENERATING
       \/ slot.state = SLOT_STATE_DONE_PROMPT /\ ~is_embd(slot)

(***************************************************************************)
(* The threads.                                                            *)
(***************************************************************************)
Handlers == 1 .. MaxPinned  \* the HTTP threads of the completion endpoints
Endpoint == 0               \* the HTTP thread of /v1/cancel
Threads  == Handlers \cup {Endpoint}

InitThread ==
    [ pc         |-> "start",
      tasks      |-> <<>>,     \* the tasks create_tasks_cmpl returned
      id_tasks   |-> {},       \* task_ids of the request
      stream     |-> FALSE,
      n_received |-> 0,        \* receive_cmpl_results: i
      n_finished |-> 0,        \* receive_cmpl_results_stream: n_finished
      todo       |-> <<>>,     \* cancel_tasks: the ids still to cancel
      cancelled  |-> <<>> ]    \* cancel_tasks: the CANCEL tasks built so far

InitHist ==
    [ sent             |-> [t \in TaskIds |-> <<>>],  \* results appended, per task id
      received         |-> [t \in TaskIds |-> <<>>],  \* results returned by recv
      posted           |-> {},     \* COMPLETION tasks posted
      launched         |-> {},     \* tasks launch_slot_with_task accepted
      cancel_processed |-> {},     \* posted tasks whose CANCEL task was processed
      late_tokens      |-> {},     \* tasks given a token after their CANCEL was processed
      synthetic        |-> {},     \* ids cancel_tasks has sent its result for
      cancelled_in_recv |-> {},    \* ... while their handler was blocked in recv
      transitions      |-> {},     \* pairs <<from, to>> of slot states
      n_cancels        |-> 0,      \* cancellations started by clients
      terminated       |-> FALSE,  \* terminate() has been called
      deferred         |-> {},     \* ids of the tasks that were deferred
      released         |-> <<>>,   \* the slots released, in the order of their last release
      out_of_range     |-> FALSE,  \* update_slots built a vector from a range that
                                   \* starts before prompt_tokens.begin()
      assert_failed    |-> FALSE ] \* a GGML_ASSERT of update_slots failed

InitDecode == [i |-> 0, n_batch |-> n_batch_cfg, batch_type |-> -1]

\* the state after server_context::init and before start_loop.  running is
\* not initialised by server_queue
InitWith(config) ==
    /\ slots = [s \in SlotIds |-> InitSlot(s)]
    /\ queue_tasks = <<>>
    /\ queue_tasks_deferred = <<>>
    /\ id = 0
    /\ running \in BOOLEAN
    /\ waiting_task_ids = {}
    /\ queue_results = <<>>
    /\ system_prompt = <<>>
    /\ system_tokens = <<>>
    /\ system_need_update = FALSE
    /\ batch = <<>>
    /\ decode = InitDecode
    /\ sched = "init"
    /\ threads = [x \in Threads |-> InitThread]
    /\ cfg = config
    /\ hist = InitHist

\* the scheduler's step ends with the components c at position pc
SchedStore(c, pc, d) ==
    /\ slots' = c.slots
    /\ queue_tasks' = c.queue_tasks
    /\ queue_tasks_deferred' = c.queue_tasks_deferred
    /\ queue_results' = c.queue_results
    /\ system_prompt' = c.system_prompt
    /\ system_tokens' = c.system_tokens
    /\ system_need_update' = c.system_need_update
    /\ batch' = IF pc = "decode" THEN c.batch ELSE <<>>
    /\ decode' = d
    /\ hist' = c.hist
    /\ sched' = pc
    /\ UNCHANGED <<id, running, waiting_task_ids, threads, cfg>>

(***************************************************************************)
(* server_queue::start_loop, the scheduler thread.                         *)
(***************************************************************************)
\* line 497: running = true
SchedStart ==
    /\ sched = "init"
    /\ running' = TRUE
    /\ sched' = "take"
    /\ UNCHANGED <<slots, queue_tasks, queue_tasks_deferred, id, waiting_task_ids,
                   queue_results, system_prompt, system_tokens, system_need_update,
                   batch, decode, threads, cfg, hist>>

\* lines 502-513: the head of the main queue is popped and processed
SchedTake ==
    /\ sched = "take"
    /\ queue_tasks # <<>>
    /\ SchedStore(process_single_task([Ctx EXCEPT !.queue_tasks = Tail(@)], Head(queue_tasks)),
                  "take", decode)

\* update_slots returned before its decode loop, or enters it; r is what
\* update_slots_compose returned
SchedComposed(r) ==
    IF r.decode
    THEN SchedStore(r.c, "decode", [InitDecode EXCEPT !.batch_type = r.c.batch_type])
    ELSE SchedStore(r.c, "end", InitDecode)

\* lines 504-506 and 519: the main queue is empty, update_slots runs up to
\* its decode loop
SchedUpdate ==
    /\ sched = "take"
    /\ queue_tasks = <<>>
    /\ \E sys_ret \in (IF system_need_update /\ system_prompt # <<>> THEN {0, 1} ELSE {0}) :
          SchedComposed(update_slots_compose(Ctx, sys_ret))

\* the target sampler.  With cfg.eog_at = -1 it may return any token;
\* otherwise it is deterministic (a fixed seed and fixed sampler parameters):
\* the p-th token it accepts for a task is an end-of-generation token when
\* p = cfg.eog_at and TOK_A otherwise
Target(p) == IF p = cfg.eog_at THEN TOK_EOS ELSE TOK_A

\* gpt_sampler_sample for a slot that has accepted n_decoded tokens
Sampled(slot) ==
    IF cfg.eog_at = -1 THEN SampleVocab ELSE {Target(slot.n_decoded + 1)}

\* gpt_sampler_sample_and_accept_n after the slot's sampled token: the
\* target's tokens for the k draft tokens that match and one more, for every
\* k up to speculative.n_max; <<>> stands for a draft that is ignored
Accepted(slot) ==
    IF cfg.eog_at = -1 THEN SpecChoices(slot)
    ELSE {<<>>} \cup {[j \in 1 .. (k + 1) |-> Target(slot.n_decoded + 1 + j)] :
                         k \in 0 .. slot.spec_n_max}

\* slot s samples a token in this iteration of the decode loop
Sampling(s, ret) ==
    ret = 0 /\ samples(slots[s], decode.i, Min(decode.n_batch, Len(batch) - decode.i))

\* the decode loop ends or goes on; r is what decode_step returned
SchedDecoded(r) ==
    IF r.done
    THEN SchedStore(r.c, "end", InitDecode)
    ELSE SchedStore(r.c, "decode", [decode EXCEPT !.i = r.i, !.n_batch = r.n_batch])

\* one iteration of update_slots' decode loop: llama_decode returns ret, the
\* slots of the decoded tokens sample samp and accept spec
SchedDecode ==
    /\ sched = "decode"
    /\ \E ret \in cfg.rets :
       \E samp \in [SlotIds -> SampleVocab] :
       \E spec \in [SlotIds -> UNION {Accepted(slots[s]) : s \in SlotIds}] :
          /\ \A s \in SlotIds :
                IF Sampling(s, ret) THEN samp[s] \in Sampled(slots[s]) ELSE samp[s] = TOK_EOS
          /\ \A s \in SlotIds :
                IF Sampling(s, ret) /\ can_speculate(slots[s])
                THEN spec[s] \in Accepted(slots[s]) ELSE spec[s] = <<>>
          /\ SchedDecoded(decode_step(Ctx, decode, ret, samp, spec))

\* lines 522-533: after update_slots.  With an empty main queue the loop
\* returns when running is false and waits otherwise
SchedEnd ==
    /\ sched = "end"
    /\ sched' = IF queue_tasks # <<>> THEN "take"
                ELSE IF ~running THEN "done" ELSE "blocked"
    /\ UNCHANGED <<slots, queue_tasks, queue_tasks_deferred, id, running, waiting_task_ids,
                   queue_results, system_prompt, system_tokens, system_need_update,
                   batch, decode, threads, cfg, hist>>

\* lines 529-531: condition_tasks.wait returns
SchedWake ==
    /\ sched = "blocked"
    /\ queue_tasks # <<>> \/ ~running
    /\ sched' = "take"
    /\ UNCHANGED <<slots, queue_tasks, queue_tasks_deferred, id, running, waiting_task_ids,
                   queue_results, system_prompt, system_tokens, system_need_update,
                   batch, decode, threads, cfg, hist>>

(***************************************************************************)
(* The handler threads (handle_completions_generic and the endpoints built *)
(* on it).  A request whose prompt is an array of n prompts makes n tasks, *)
(* here with the same prompt each.                                         *)
(***************************************************************************)
\* the ids of a request in the order cancel_tasks visits them (ascending)
RECURSIVE IdSeq(_)
IdSeq(S) ==
    IF S = {} THEN <<>>
    ELSE LET m == CHOOSE t \in S : \A u \in S : t <= u IN <<m>> \o IdSeq(S \ {m})

\* lines 3120-3121: create_tasks_cmpl takes a new id (get_new_id) for each
\* of the n prompts of the request and add_waiting_tasks registers them.
\* Handlers are interchangeable, so they take their ids in the order of
\* their numbers
HandlerCreate(h) ==
    /\ threads[h].pc = "start"
    /\ \A g \in Handlers : g < h => threads[g].pc # "start"
    /\ \E req \in cfg.menu : \E n \in cfg.n_prompts :
          /\ id + n <= cfg.max_tasks
          /\ threads' = [threads EXCEPT ![h] =
                 [@ EXCEPT !.pc       = "post",
                           !.tasks    = [k \in 1 .. n |->
                                            server_task(id + k - 1, SERVER_TASK_TYPE_COMPLETION,
                                                        -1, req.cmpl_type, req.data)],
                           !.id_tasks = id .. (id + n - 1),
                           !.stream   = req.data.stream]]
          /\ id' = id + n
          /\ waiting_task_ids' = waiting_task_ids \cup (id .. (id + n - 1))
    /\ UNCHANGED <<slots, queue_tasks, queue_tasks_deferred, running, queue_results,
                   system_prompt, system_tokens, system_need_update, batch, decode,
                   sched, cfg, hist>>

\* line 3122: queue_tasks.post(tasks)
HandlerPost(h) ==
    /\ threads[h].pc = "post"
    /\ queue_tasks' = post_all(queue_tasks, threads[h].tasks, FALSE)
    /\ threads' = [threads EXCEPT ![h].pc = "recv"]
    /\ hist' = [hist EXCEPT !.posted = @ \cup threads[h].id_tasks]
    /\ UNCHANGED <<slots, queue_tasks_deferred, id, running, waiting_task_ids, queue_results,
                   system_prompt, system_tokens, system_need_update, batch, decode,
                   sched, cfg>>

\* recv_pos taking the latest result whose id is in id_tasks
recv_pos_latest(results, id_tasks) ==
    LET hits == {k \in 1 .. Len(results) : results[k].id \in id_tasks}
    IN IF hits = {} THEN 0 ELSE CHOOSE k \in hits : \A j \in hits : k >= j

\* server_response::recv: the position in queue_results of the earliest
\* result whose id is in id_tasks, 0 when there is none (recv blocks)
recv_pos(results, id_tasks) ==
    LET hits == {k \in 1 .. Len(results) : results[k].id \in id_tasks}
    IN IF hits = {} THEN 0 ELSE CHOOSE k \in hits : \A j \in hits : k <= j

RemoveAt(s, k) == SubSeq(s, 1, k - 1) \o SubSeq(s, k + 1, Len(s))

\* receive_cmpl_results (lines 1676-1696) after recv returned result: the
\* thread's record.  The result of cancel_tasks has no "index", and the
\* conversion of result.data["index"] throws out of the handler
receive_cmpl_results(th, result) ==
    IF result.error
    THEN [th EXCEPT !.pc = "cancel_send", !.todo = IdSeq(th.id_tasks), !.cancelled = <<>>]
    ELSE IF result.kind = "cancelled" THEN [th EXCEPT !.pc = "done"]
    ELSE IF th.n_received + 1 = Cardinality(th.id_tasks)
    THEN [th EXCEPT !.n_received = @ + 1, !.pc = "remove"]
    ELSE [th EXCEPT !.n_received = @ + 1]

\* receive_cmpl_results_stream (lines 1699-1724) after recv returned
\* result; sink_ok is what result_handler (server_sent_event) returns
receive_cmpl_results_stream(th, result, sink_ok) ==
    IF ~sink_ok \/ result.error
    THEN [th EXCEPT !.pc = "cancel_send", !.todo = IdSeq(th.id_tasks), !.cancelled = <<>>]
    ELSE IF result.stop /\ th.n_finished + 1 = Cardinality(th.id_tasks)
    THEN [th EXCEPT !.n_finished = @ + 1, !.pc = "remove"]
    ELSE IF result.stop THEN [th EXCEPT !.n_finished = @ + 1]
    ELSE th

\* recv returns to the handler, which handles the result.  The client of a
\* stream may have closed it (sink_ok = FALSE)
HandlerRecv(h) ==
    /\ threads[h].pc = "recv"
    /\ recv_pos(queue_results, threads[h].id_tasks) # 0
    /\ LET k      == recv_pos(queue_results, threads[h].id_tasks)
           result == queue_results[k]
       IN /\ queue_results' = RemoveAt(queue_results, k)
          /\ \E sink_ok \in (IF threads[h].stream /\ hist.n_cancels < cfg.max_cancels
                             THEN BOOLEAN ELSE {TRUE}) :
                /\ threads' = [threads EXCEPT ![h] =
                                  IF threads[h].stream
                                  THEN receive_cmpl_results_stream(@, result, sink_ok)
                                  ELSE receive_cmpl_results(@, result)]
                /\ hist' = [hist EXCEPT !.received[result.id] = Append(@, result),
                                        !.n_cancels = IF sink_ok THEN @ ELSE @ + 1]
    /\ UNCHANGED <<slots, queue_tasks, queue_tasks_deferred, id, running, waiting_task_ids,
                   system_prompt, system_tokens, system_need_update, batch, decode,
                   sched, cfg>>

\* lines 3144 and 3157: remove_waiting_task_ids(task_ids)
HandlerRemove(h) ==
    /\ threads[h].pc = "remove"
    /\ waiting_task_ids' = waiting_task_ids \ threads[h].id_tasks
    /\ threads' = [threads EXCEPT ![h].pc = "done"]
    /\ UNCHANGED <<slots, queue_tasks, queue_tasks_deferred, id, running, queue_results,
                   system_prompt, system_tokens, system_need_update, batch, decode,
                   sched, cfg, hist>>

(***************************************************************************)
(* server_context::cancel_tasks, run by a handler thread or by the thread  *)
(* of /v1/cancel, one critical section per step.                           *)
(***************************************************************************)
\* line 2837: /v1/cancel calls cancel_tasks({task_id}) for any task id
EndpointCancel ==
    /\ threads[Endpoint].pc = "start"
    /\ hist.n_cancels < cfg.max_cancels
    /\ \E task_id \in TaskIds :
          threads' = [threads EXCEPT ![Endpoint] =
                         [@ EXCEPT !.pc = "cancel_send", !.todo = <<task_id>>,
                                   !.cancelled = <<>>]]
    /\ hist' = [hist EXCEPT !.n_cancels = @ + 1]
    /\ UNCHANGED <<slots, queue_tasks, queue_tasks_deferred, id, running, waiting_task_ids,
                   queue_results, system_prompt, system_tokens, system_need_update,
                   batch, decode, sched, cfg>>

\* the result cancel_tasks sends for id_task (lines 1661-1665)
cancel_res(id_task) == server_task_result(id_task, TRUE, FALSE, "cancelled", <<>>)

\* a handler is blocked in recv on a set that contains id_task
blocked_in_recv(id_task) ==
    \E h \in Handlers : /\ threads[h].pc = "recv"
                        /\ id_task \in threads[h].id_tasks
                        /\ recv_pos(queue_results, threads[h].id_tasks) = 0

\* lines 1655-1666: the CANCEL task is built and queue_results.send(cancel_res)
CancelSend(x) ==
    /\ threads[x].pc = "cancel_send"
    /\ LET id_task == Head(threads[x].todo)
           c == send(Ctx, cancel_res(id_task))
       IN /\ queue_results' = c.queue_results
          /\ hist' = [c.hist EXCEPT !.synthetic = @ \cup {id_task},
                                     !.cancelled_in_recv =
                                         IF blocked_in_recv(id_task)
                                         THEN @ \cup {id_task} ELSE @]
          /\ threads' = [threads EXCEPT ![x] =
                 [@ EXCEPT !.pc = "cancel_remove",
                           !.cancelled = Append(@, server_task(-1, SERVER_TASK_TYPE_CANCEL,
                                                   id_task, SERVER_TASK_CMPL_TYPE_NORMAL,
                                                   NoData))]]
    /\ UNCHANGED <<slots, queue_tasks, queue_tasks_deferred, id, running, waiting_task_ids,
                   system_prompt, system_tokens, system_need_update, batch, decode,
                   sched, cfg>>

\* line 1669: queue_results.remove_waiting_task_id(id_task)
CancelRemove(x) ==
    /\ threads[x].pc = "cancel_remove"
    /\ waiting_task_ids' = waiting_task_ids \ {Head(threads[x].todo)}
    /\ threads' = [threads EXCEPT ![x] =
           [@ EXCEPT !.todo = Tail(@),
                     !.pc = IF Tail(threads[x].todo) = <<>> THEN "cancel_post"
                            ELSE "cancel_send"]]
    /\ UNCHANGED <<slots, queue_tasks, queue_tasks_deferred, id, running, queue_results,
                   system_prompt, system_tokens, system_need_update, batch, decode,
                   sched, cfg, hist>>

\* line 1672: queue_tasks.post(cancel_tasks, true); then the handler goes on
\* to remove_waiting_task_ids and the endpoint replies
CancelPost(x) ==
    /\ threads[x].pc = "cancel_post"
    /\ queue_tasks' = post_all(queue_tasks, threads[x].cancelled, TRUE)
    /\ threads' = [threads EXCEPT ![x] =
           [@ EXCEPT !.cancelled = <<>>,
                     !.pc = IF x = Endpoint THEN "start" ELSE "remove"]]
    /\ UNCHANGED <<slots, queue_tasks_deferred, id, running, waiting_task_ids, queue_results,
                   system_prompt, system_tokens, system_need_update, batch, decode,
                   sched, cfg, hist>>

(***************************************************************************)
(* server_queue::terminate, called by the signal handler (shutdown_handler *)
(* of main).  signal_handler calls it for the first signal only.           *)
(***************************************************************************)
\* lines 483-487: running = false; condition_tasks.notify_all()
Terminate ==
    /\ ~hist.terminated
    /\ running' = FALSE
    /\ hist' = [hist EXCEPT !.terminated = TRUE]
    /\ UNCHANGED <<slots, queue_tasks, queue_tasks_deferred, id, waiting_task_ids,
                   queue_results, system_prompt, system_tokens, system_need_update,
                   batch, decode, sched, threads, cfg>>

(***************************************************************************)
(* The requests of the model and the specification.                        *)
(***************************************************************************)
Request(cmpl_type, data) == [cmpl_type |-> cmpl_type, data |-> data]

\* /completion with "stream": true; its prompt takes two batches
ReqStream == Request(SERVER_TASK_CMPL_TYPE_NORMAL,
                     [DefaultData EXCEPT !.stream = TRUE,
                                         !.prompt = PromptTokens(<<TOK_A, TOK_A, TOK_A>>)])
\* /completion that also sets the system prompt; with the system prompt's
\* tokens its two prompt tokens reach the context-shift threshold
ReqSystem == Request(SERVER_TASK_CMPL_TYPE_NORMAL,
                     [DefaultData EXCEPT !.system_prompt = SystemPrompt(<<TOK_SYS>>),
                                         !.prompt = PromptTokens(<<TOK_A, TOK_A>>)])
\* /completion with "id_slot": 0 and with both "json_schema" and "grammar"
ReqRejected == Request(SERVER_TASK_CMPL_TYPE_NORMAL,
                       [DefaultData EXCEPT !.id_slot = 0, !.both_grammars = TRUE])
\* /completion with "id_slot": 0
ReqPinned == Request(SERVER_TASK_CMPL_TYPE_NORMAL, [DefaultData EXCEPT !.id_slot = 0])
\* /completion with an "id_slot" that no slot has
ReqNoSlot == Request(SERVER_TASK_CMPL_TYPE_NORMAL, [DefaultData EXCEPT !.id_slot = n_parallel])
\* /completion with the prompt "A" and one token to predict
ReqTextA == Request(SERVER_TASK_CMPL_TYPE_NORMAL,
                    [DefaultData EXCEPT !.prompt = PromptString(<<TOK_A>>), !.n_predict = 1])
\* /completion with the prompt "AB"
ReqTextAB == Request(SERVER_TASK_CMPL_TYPE_NORMAL,
                     [DefaultData EXCEPT !.prompt = PromptString(<<TOK_A, TOK_B>>)])
\* /completion with an array of one token as prompt and one token to predict
ReqShort == Request(SERVER_TASK_CMPL_TYPE_NORMAL, [DefaultData EXCEPT !.n_predict = 1])
\* /completion with a prompt of as many tokens as the slot's context
ReqLong == Request(SERVER_TASK_CMPL_TYPE_NORMAL,
                   [DefaultData EXCEPT !.prompt = PromptTokens([k \in 1 .. n_ctx_slot |-> TOK_A])])
\* /embedding with a prompt of two tokens
ReqEmbedPair == Request(SERVER_TASK_CMPL_TYPE_EMBEDDING,
                        [DefaultData EXCEPT !.prompt = PromptTokens(<<TOK_A, TOK_A>>)])
\* /embedding
ReqEmbedding == Request(SERVER_TASK_CMPL_TYPE_EMBEDDING, DefaultData)
\* /completion with speculative decoding
ReqSpeculative == Request(SERVER_TASK_CMPL_TYPE_NORMAL,
                          [DefaultData EXCEPT !.spec_n_max = 1, !.n_predict = 3])

Menu == {ReqStream, ReqSystem, ReqRejected, ReqEmbedding, ReqSpeculative}

\* the configuration of the main specification: clients send any two
\* requests of the menu and may close a stream
Config ==
    [ ctx_shift     |-> TRUE,        \* params.ctx_shift
      cont_batching |-> TRUE,        \* params.cont_batching
      menu          |-> Menu,
      max_tasks     |-> MaxTasks,
      max_cancels   |-> MaxCancels,
      n_prompts     |-> {1},         \* the numbers of prompts a request may have
      eog_at        |-> -1,          \* the target sampler: see Target
      rets          |-> {0, 1, -1} ] \* what llama_decode may return

Init == InitWith(Config)

Next ==
    \/ SchedStart
    \/ SchedTake
    \/ SchedUpdate
    \/ SchedDecode
    \/ SchedEnd
    \/ SchedWake
    \/ \E h \in Handlers : HandlerCreate(h)
    \/ \E h \in Handlers : HandlerPost(h)
    \/ \E h \in Handlers : HandlerRecv(h)
    \/ \E h \in Handlers : HandlerRemove(h)
    \/ \E x \in Threads : CancelSend(x)
    \/ \E x \in Threads : CancelRemove(x)
    \/ \E x \in Threads : CancelPost(x)

Spec == Init /\ [][Next]_vars

\* the configuration with the /v1/cancel endpoint: every forward pass
\* succeeds, and clients also cancel any task id through the endpoint
ConfigCancel ==
    [Config EXCEPT !.menu = {ReqStream, ReqEmbedding}, !.rets = {0}]

InitCancel == InitWith(ConfigCancel)

NextCancel == Next \/ EndpointCancel

SpecCancel == InitCancel /\ [][NextCancel]_vars

\* the configuration with requests pinned to slot 0: every forward pass
\* succeeds and no client cancels
ConfigStarve ==
    [Config EXCEPT !.menu = {ReqPinned, ReqRejected}, !.max_tasks = MaxPinned,
                   !.max_cancels = 0, !.rets = {0}]

InitStarve == InitWith(ConfigStarve)

SpecStarve == InitStarve /\ [][Next]_vars

\* the configuration with a termination signal: every forward pass
\* succeeds, clients may close a stream, and SIGINT or SIGTERM arrives at
\* any time after main has installed shutdown_handler
ConfigTerminate ==
    [Config EXCEPT !.menu = {ReqStream, ReqEmbedding}, !.rets = {0}]

InitTerminate == InitWith(ConfigTerminate)

NextTerminate == Next \/ Terminate

SpecTerminate == InitTerminate /\ [][NextTerminate]_vars

\* the configuration with requests of two prompts: every forward pass
\* succeeds and the client of a stream may close it
ConfigBulk ==
    [Config EXCEPT !.menu = {ReqStream}, !.n_prompts = {1, 2}, !.rets = {0}]

InitBulk == InitWith(ConfigBulk)

SpecBulk == InitBulk /\ [][Next]_vars

\* the configuration with requests that name a slot, slot 0 or a slot that
\* does not exist: every forward pass succeeds and no client cancels
ConfigNoSlot ==
    [Config EXCEPT !.menu = {ReqPinned, ReqRejected, ReqNoSlot},
                   !.max_cancels = 0, !.rets = {0}]

InitNoSlot == InitWith(ConfigNoSlot)

SpecNoSlot == InitNoSlot /\ [][Next]_vars

\* the configuration for the choice of a slot: three requests whose prompts
\* are the strings "A" and "AB" or an array of tokens; every forward pass
\* succeeds, no request fails and no client cancels, so that cancel_tasks
\* is never called
ConfigSlots ==
    [Config EXCEPT !.menu = {ReqTextA, ReqTextAB, ReqShort},
                   !.max_tasks = MaxPinned, !.max_cancels = 0, !.rets = {0}]

InitSlots == InitWith(ConfigSlots)

NextSlots ==
    \/ SchedStart
    \/ SchedTake
    \/ SchedUpdate
    \/ SchedDecode
    \/ SchedEnd
    \/ SchedWake
    \/ \E h \in Handlers : HandlerCreate(h)
    \/ \E h \in Handlers : HandlerPost(h)
    \/ \E h \in Handlers : HandlerRecv(h)
    \/ \E h \in Handlers : HandlerRemove(h)

SpecSlots == InitSlots /\ [][NextSlots]_vars

\* the configuration for the reuse of the cached prompt: two requests, with
\* prompts of one, three and five tokens and an embedding of two tokens;
\* every forward pass succeeds, no request fails and no client cancels
ConfigReuse ==
    [Config EXCEPT !.menu = {ReqShort, ReqStream, ReqLong, ReqEmbedPair},
                   !.max_cancels = 0, !.rets = {0}]

InitReuse == InitWith(ConfigReuse)

SpecReuse == InitReuse /\ [][NextSlots]_vars

\* /completion on slot 0 with speculative decoding and /completion on slot 1
\* without, for the same prompt of one token, budget n_predict and stop
\* strings antiprompt
ReqDrafted(n_predict, antiprompt) ==
    Request(SERVER_TASK_CMPL_TYPE_NORMAL,
            [DefaultData EXCEPT !.id_slot = 0, !.spec_n_max = MaxDraft,
                                !.n_predict = n_predict, !.antiprompt = antiprompt])

ReqUndrafted(n_predict, antiprompt) ==
    Request(SERVER_TASK_CMPL_TYPE_NORMAL,
            [DefaultData EXCEPT !.id_slot = 1,
                                !.n_predict = n_predict, !.antiprompt = antiprompt])

\* the configuration with a deterministic target sampler: the same request
\* is sent with and without speculative decoding; every forward pass
\* succeeds and no client cancels
ConfigDrafted(n_predict, antiprompt, eog_at) ==
    [Config EXCEPT !.menu = {ReqDrafted(n_predict, antiprompt),
                             ReqUndrafted(n_predict, antiprompt)},
                   !.max_cancels = 0, !.rets = {0}, !.eog_at = eog_at]

\* the budgets, stop strings and positions of the end-of-generation token
\* (0: none) of the requests
Budgets == {-1} \cup (1 .. MaxBudget)
StopLists == {<<>>, <<llama_token_to_piece(TOK_A) \o llama_token_to_piece(TOK_A)>>}
EogPositions == 0 .. MaxBudget

InitDrafted ==
    \E n_predict \in Budgets : \E antiprompt \in StopLists : \E eog_at \in EogPositions :
        InitWith(ConfigDrafted(n_predict, antiprompt, eog_at))

SpecDrafted == InitDrafted /\ [][NextSlots]_vars

(***************************************************************************)
(* The tokenization and truncation of a prompt (update_slots, lines        *)
(* 2182-2272) applied alone to slot 0, for every context size of a slot    *)
(* (n_ctx / n_parallel, line 784) up to MaxCtx, every prompt of up to      *)
(* MaxPrompt tokens (the k-th token is k) and the values of "n_keep" in    *)
(* TruncateKeeps.                                                          *)
(***************************************************************************)
MaxCtx    == 6
MaxPrompt == 7
TruncateKeeps == {-1, 0, 1, 2, MaxCtx + 1}

InitTruncate ==
    /\ \E n_ctx \in 1 .. MaxCtx : \E n \in 1 .. MaxPrompt : \E n_keep \in TruncateKeeps :
          slots = [s \in SlotIds |->
                      IF s = 0
                      THEN [InitSlot(s) EXCEPT !.state = SLOT_STATE_PROCESSING_PROMPT,
                                               !.id_task = 0,
                                               !.prompt = PromptTokens([k \in 1 .. n |-> k]),
                                               !.n_keep = n_keep,
                                               !.n_ctx = n_ctx]
                      ELSE InitSlot(s)]
    /\ sched = "tokenize"
    /\ queue_tasks = <<>> /\ queue_tasks_deferred = <<>> /\ id = 1
    /\ running = TRUE /\ waiting_task_ids = {0} /\ queue_results = <<>>
    /\ system_prompt = <<>> /\ system_tokens = <<>> /\ system_need_update = FALSE
    /\ batch = <<>> /\ decode = InitDecode
    /\ threads = [x \in Threads |-> InitThread]
    /\ cfg = Config /\ hist = InitHist

\* lines 2182-2272 for slot 0.  With n_keep < 0 the range of line 2224 ends
\* before prompt_tokens.begin(), which is undefined: new_tokens may then
\* hold no token, or the tokens that a range clamped to begin() gives
TruncatePrompt ==
    /\ sched = "tokenize"
    /\ \E new_tokens \in {<<>>, tokenized(Ctx, 0, slot_tokens(Ctx, slots[0])).c.slots[0].prompt_tokens} :
          /\ tokenized(Ctx, 0, slot_tokens(Ctx, slots[0])).c.hist.out_of_range
                 \/ new_tokens # <<>>
          /\ SchedStore([tokenized(Ctx, 0, slot_tokens(Ctx, slots[0])).c
                            EXCEPT !.slots[0].prompt_tokens = new_tokens,
                                   !.slots[0].n_prompt_tokens = Len(new_tokens)],
                        "tokenized", decode)

NextTruncate == TruncatePrompt

SpecTruncate == InitTruncate /\ [][NextTruncate]_vars

(***************************************************************************)
(* The context shift of update_slots (lines 2044-2067) applied alone: two  *)
(* generating slots hold the same tokens and the same n_keep; slot 0 has   *)
(* n_discard = d and slot 1 has n_discard = 2 d, and each slot is shifted  *)
(* until 2 d tokens have been discarded.  At least 2 d tokens follow the   *)
(* kept prefix (n_keep tokens and BOS).                                    *)
(***************************************************************************)
ShiftSlot(sid, cache, n_keep, n_discard) ==
    [InitSlot(sid) EXCEPT !.state = SLOT_STATE_GENERATING,
                          !.id_task = sid,
                          !.prompt = PromptTokens(cache),
                          !.prompt_tokens = cache,
                          !.n_prompt_tokens = Len(cache),
                          !.cache_tokens = cache,
                          !.n_past = Len(cache),
                          !.n_keep = n_keep,
                          !.n_discard = n_discard]

InitShift ==
    /\ \E n \in 3 .. MaxCache : \E cache \in [1 .. n -> {TOK_A, TOK_B}] :
       \E n_keep \in 0 .. 1 : \E d \in 1 .. 2 :
          /\ n_keep + (IF add_bos_token THEN 1 ELSE 0) + 2 * d <= n
          /\ slots = [s \in SlotIds |-> ShiftSlot(s, cache, n_keep, (s + 1) * d)]
    /\ sched = "shift"
    /\ queue_tasks = <<>> /\ queue_tasks_deferred = <<>> /\ id = n_parallel
    /\ running = TRUE /\ waiting_task_ids = {} /\ queue_results = <<>>
    /\ system_prompt = <<>> /\ system_tokens = <<>> /\ system_need_update = FALSE
    /\ batch = <<>> /\ decode = InitDecode
    /\ threads = [x \in Threads |-> InitThread]
    /\ cfg = Config /\ hist = InitHist

\* lines 2044-2067 for slot s
ContextShift(s) ==
    /\ sched = "shift"
    /\ slots[s].n_past > Len(slots[s].prompt_tokens) - slots[1].n_discard
    /\ slots' = [slots EXCEPT ![s] = shifted(@, shift_n_discard(@, Len(system_tokens)))]
    /\ UNCHANGED <<queue_tasks, queue_tasks_deferred, id, running, waiting_task_ids,
                   queue_results, system_prompt, system_tokens, system_need_update,
                   batch, decode, sched, threads, cfg, hist>>

NextShift == \E s \in SlotIds : ContextShift(s)

SpecShift == InitShift /\ [][NextShift]_vars

(***************************************************************************)
(* The endpoints of /slots/{id_slot}?action=save|restore|erase             *)
(* (handle_slots_save, handle_slots_restore, handle_slots_erase) with one  *)
(* /completion pinned to slot 0: every forward pass succeeds and no client *)
(* cancels.  A request names slot 0 or a slot that does not exist, and the *)
(* file of a restore is unreadable or holds two tokens.                    *)
(***************************************************************************)
SlotActions ==
    {[type |-> type, data |-> SlotData(id_slot, TRUE, <<>>)] :
        type \in {SERVER_TASK_TYPE_SLOT_SAVE, SERVER_TASK_TYPE_SLOT_ERASE},
        id_slot \in {0, n_parallel}}
    \cup {[type |-> SERVER_TASK_TYPE_SLOT_RESTORE, data |-> SlotData(id_slot, FALSE, <<>>)] :
            id_slot \in {0, n_parallel}}
    \cup {[type |-> SERVER_TASK_TYPE_SLOT_RESTORE,
           data |-> SlotData(0, TRUE, <<TOK_A, TOK_B>>)]}

\* lines 2995-3003 (3025-3033, 3047-3052): the task is built and
\* queue_tasks.post(task) gives it the next id
HandlerSlotPost(h) ==
    /\ threads[h].pc = "start"
    /\ \A g \in Handlers : g < h => threads[g].pc # "start"
    /\ id + 1 <= cfg.max_tasks
    /\ \E req \in SlotActions :
          queue_tasks' = post(queue_tasks,
                              server_task(id, req.type, -1, SERVER_TASK_CMPL_TYPE_NORMAL,
                                          req.data), FALSE)
    /\ id' = id + 1
    /\ threads' = [threads EXCEPT ![h] = [@ EXCEPT !.pc = "slot_wait", !.id_tasks = {id}]]
    /\ UNCHANGED <<slots, queue_tasks_deferred, running, waiting_task_ids, queue_results,
                   system_prompt, system_tokens, system_need_update, batch, decode,
                   sched, cfg, hist>>

\* line 3004 (3034, 3053): queue_results.add_waiting_task_id(id_task)
HandlerSlotWait(h) ==
    /\ threads[h].pc = "slot_wait"
    /\ waiting_task_ids' = waiting_task_ids \cup threads[h].id_tasks
    /\ threads' = [threads EXCEPT ![h].pc = "slot_recv"]
    /\ UNCHANGED <<slots, queue_tasks, queue_tasks_deferred, id, running, queue_results,
                   system_prompt, system_tokens, system_need_update, batch, decode,
                   sched, cfg, hist>>

\* line 3006 (3036, 3055): queue_results.recv(id_task) returns
HandlerSlotRecv(h) ==
    /\ threads[h].pc = "slot_recv"
    /\ recv_pos(queue_results, threads[h].id_tasks) # 0
    /\ queue_results' = RemoveAt(queue_results, recv_pos(queue_results, threads[h].id_tasks))
    /\ hist' = [hist EXCEPT
                   !.received[queue_results[recv_pos(queue_results, threads[h].id_tasks)].id] =
                       Append(@, queue_results[recv_pos(queue_results, threads[h].id_tasks)])]
    /\ threads' = [threads EXCEPT ![h].pc = "remove"]
    /\ UNCHANGED <<slots, queue_tasks, queue_tasks_deferred, id, running, waiting_task_ids,
                   system_prompt, system_tokens, system_need_update, batch, decode,
                   sched, cfg>>

ConfigSlotActions ==
    [Config EXCEPT !.menu = {ReqPinned}, !.max_cancels = 0, !.rets = {0}]

InitSlotActions == InitWith(ConfigSlotActions)

NextSlotActions ==
    \/ NextSlots
    \/ \E h \in Handlers : HandlerSlotPost(h)
    \/ \E h \in Handlers : HandlerSlotWait(h)
    \/ \E h \in Handlers : HandlerSlotRecv(h)

SpecSlotActions == InitSlotActions /\ [][NextSlotActions]_vars

(***************************************************************************)
(* Embeddings and completions together: every forward pass succeeds and   *)
(* no client cancels.                                                      *)
(***************************************************************************)
ConfigMixed ==
    [Config EXCEPT !.menu = {ReqShort, ReqStream, ReqEmbedding},
                   !.max_cancels = 0, !.rets = {0}]

InitMixed == InitWith(ConfigMixed)

SpecMixed == InitMixed /\ [][NextSlots]_vars

\* /completion without a budget, with the n_keep and n_discard of the request
ReqKeep(n_keep, n_discard, cache_prompt) ==
    Request(SERVER_TASK_CMPL_TYPE_NORMAL,
            [DefaultData EXCEPT !.n_predict = -1, !.n_keep = n_keep,
                                !.n_discard = n_discard, !.cache_prompt = cache_prompt])

\* the values of "n_keep" and "n_discard" that the requests carry
KeepValues    == {-1, 0, 1}
DiscardValues == {0, 1, 4}

\* the configuration for the context shift: requests that generate until
\* the context of their slot is full, a target sampler that never returns
\* an end-of-generation token; every forward pass succeeds and no client
\* cancels
ConfigKeep(n_keep, n_discard, cache_prompt, ctx_shift) ==
    [Config EXCEPT !.menu = {ReqKeep(n_keep, n_discard, cache_prompt)},
                   !.max_cancels = 0, !.rets = {0}, !.eog_at = 0,
                   !.ctx_shift = ctx_shift]

InitKeep ==
    \E n_keep \in KeepValues : \E n_discard \in DiscardValues :
    \E cache_prompt \in BOOLEAN : \E ctx_shift \in BOOLEAN :
        InitWith(ConfigKeep(n_keep, n_discard, cache_prompt, ctx_shift))

SpecKeep == InitKeep /\ [][NextSlots]_vars

\* /completion with "prompt": [[]], an array of no tokens
ReqEmpty == Request(SERVER_TASK_CMPL_TYPE_NORMAL,
                    [DefaultData EXCEPT !.prompt = PromptTokens(<<>>)])

\* the configuration for the empty prompt: three requests for two slots, so
\* that a task is deferred; every forward pass succeeds and no client
\* cancels
ConfigEmpty ==
    [Config EXCEPT !.menu = {ReqEmpty, ReqShort},
                   !.max_tasks = MaxPinned, !.max_cancels = 0, !.rets = {0}]

InitEmpty == InitWith(ConfigEmpty)

SpecEmpty == InitEmpty /\ [][NextSlots]_vars

(***************************************************************************)
(* process_token applied alone: slot 0 generates for task 0, a streaming   *)
(* request with one stop string, and is given up to MaxStopTokens tokens   *)
(* of the vocabulary StopVocab while process_token returns true.           *)
(***************************************************************************)
StopVocab == {TOK_A, TOK_B, TOK_AB, TOK_SP_LEAD, TOK_CONT}
StopWords == {<<97, 97>>, <<97, 98>>, <<97, 32>>, <<97, 97, 98>>}

InitStop ==
    /\ \E W \in StopWords :
          slots = [s \in SlotIds |->
                      IF s = 0
                      THEN [InitSlot(s) EXCEPT !.state = SLOT_STATE_GENERATING,
                                               !.id_task = 0,
                                               !.antiprompt = <<W>>]
                      ELSE InitSlot(s)]
    /\ sched = "token"
    /\ queue_tasks = <<>> /\ queue_tasks_deferred = <<>> /\ id = 1
    /\ running = TRUE /\ waiting_task_ids = {0} /\ queue_results = <<>>
    /\ system_prompt = <<>> /\ system_tokens = <<>> /\ system_need_update = FALSE
    /\ batch = <<>> /\ decode = InitDecode
    /\ threads = [x \in Threads |-> InitThread]
    /\ cfg = Config /\ hist = InitHist

\* update_slots, lines 2516-2530, for slot 0 and the sampled token tok
StopToken(tok) ==
    /\ sched = "token"
    /\ slots[0].has_next_token
    /\ slots[0].n_decoded < MaxStopTokens
    /\ SchedStore(process_token([Ctx EXCEPT !.slots[0].n_decoded = @ + 1], 0, tok),
                  "token", decode)

NextStop == \E tok \in StopVocab : StopToken(tok)

SpecStop == InitStop /\ [][NextStop]_vars

(***************************************************************************)
(* The claims.                                                             *)
(***************************************************************************)
\* C1: every COMPLETION task posted by a handler that waits for it gets a
\* result with stop = true appended to the result list, whichever way the
\* task ends.  In finite form: when the scheduler is blocked with both
\* queues empty and every slot IDLE, no posted task has its handler
\* blocked in recv without a stop = true result ever appended for it
C1_StopResultAppended ==
    (/\ sched = "blocked" /\ queue_tasks = <<>> /\ queue_tasks_deferred = <<>>
     /\ \A s \in SlotIds : slots[s].state = SLOT_STATE_IDLE)
    => \A h \in Handlers : \A t \in threads[h].id_tasks :
           (/\ threads[h].pc = "recv" /\ t \in hist.posted /\ t \in waiting_task_ids
            /\ recv_pos(queue_results, threads[h].id_tasks) = 0)
           => \E k \in 1 .. Len(hist.sent[t]) : hist.sent[t][k].stop

\* C2: for every task id, at most one result with stop = true is ever
\* appended to the result list
C2_AtMostOneStop ==
    \A t \in TaskIds :
        Cardinality({k \in 1 .. Len(hist.sent[t]) : hist.sent[t][k].stop}) <= 1

C4_OneTaskPerSlot ==
    /\ [](\A s, r \in SlotIds :
             (/\ s # r /\ slots[s].state # SLOT_STATE_IDLE
              /\ slots[r].state # SLOT_STATE_IDLE) => slots[s].id_task # slots[r].id_task)
    /\ [][\A s \in SlotIds :
             slots[s].id_task' # slots[s].id_task => slots[s].state = SLOT_STATE_IDLE]_vars

\* both slots run a task, each its own
C4_Witness ==
    /\ \A s \in SlotIds : slots[s].state # SLOT_STATE_IDLE
    /\ slots[0].id_task # slots[1].id_task

\* the changes of state the spec's cycle allows
C5_Cycle ==
    { <<SLOT_STATE_IDLE, SLOT_STATE_PROCESSING_PROMPT>>,
      <<SLOT_STATE_PROCESSING_PROMPT, SLOT_STATE_DONE_PROMPT>>,
      <<SLOT_STATE_DONE_PROMPT, SLOT_STATE_GENERATING>>,
      <<SLOT_STATE_GENERATING, SLOT_STATE_IDLE>>,
      <<SLOT_STATE_PROCESSING_PROMPT, SLOT_STATE_IDLE>> }

\* C5 as stated: every change of a slot's state is one of IDLE ->
\* PROCESSING_PROMPT -> DONE_PROMPT -> GENERATING -> IDLE or
\* PROCESSING_PROMPT -> IDLE
C5_OnlyCycle == hist.transitions \subseteq C5_Cycle

\* C5 as amended: every change of a slot's state is one of the cycle's, or
\* DONE_PROMPT -> IDLE
C5_CycleOrDoneToIdle ==
    hist.transitions \subseteq
        (C5_Cycle \cup {<<SLOT_STATE_DONE_PROMPT, SLOT_STATE_IDLE>>})

\* a run in which a slot went through the cycle and a slot left DONE_PROMPT
\* for IDLE
C5_Witness ==
    /\ <<SLOT_STATE_DONE_PROMPT, SLOT_STATE_IDLE>> \in hist.transitions
    /\ <<SLOT_STATE_GENERATING, SLOT_STATE_IDLE>> \in hist.transitions

\* C6 as stated: at the end of every update_slots call, every slot with
\* cache_prompt has as many cache_tokens as n_past
C6_CacheMatchesPast ==
    sched = "end" =>
        \A s \in SlotIds :
            slots[s].cache_prompt => Len(slots[s].cache_tokens) = slots[s].n_past

\* C6 as amended: at the end of every update_slots call, every slot with
\* cache_prompt that is GENERATING, or PROCESSING_PROMPT with its prompt
\* admitted to a batch, has as many cache_tokens as n_past
C6_CacheMatchesPastWhenAdmitted ==
    sched = "end" =>
        \A s \in SlotIds :
            (/\ slots[s].cache_prompt /\ slots[s].admitted
             /\ slots[s].state \in {SLOT_STATE_PROCESSING_PROMPT, SLOT_STATE_GENERATING})
            => Len(slots[s].cache_tokens) = slots[s].n_past

\* an update_slots call ends with a slot that has part of its prompt in the
\* cache and a slot that has generated tokens after its prompt
C6_Witness ==
    /\ sched = "end"
    /\ \E s, r \in SlotIds :
          /\ slots[s].cache_prompt /\ slots[s].admitted
          /\ slots[s].state = SLOT_STATE_PROCESSING_PROMPT
          /\ slots[s].n_past > 0 /\ slots[s].n_past < slots[s].n_prompt_tokens
          /\ slots[r].cache_prompt /\ slots[r].state = SLOT_STATE_GENERATING
          /\ slots[r].n_past > slots[r].n_prompt_tokens

\* C7: a deferred COMPLETION task is eventually launched, whatever happens
\* to the tasks popped before it.  In finite form: when the scheduler is
\* blocked with the main queue empty and every slot IDLE, and every handler
\* has finished or is blocked in recv, no task is still in the deferred queue
C7_DeferredLaunched ==
    (/\ sched = "blocked" /\ queue_tasks = <<>>
     /\ \A s \in SlotIds : slots[s].state = SLOT_STATE_IDLE
     /\ \A h \in Handlers :
           \/ threads[h].pc = "done"
           \/ /\ threads[h].pc = "recv"
              /\ recv_pos(queue_results, threads[h].id_tasks) = 0)
    => queue_tasks_deferred = <<>>

\* C8: after the scheduler has processed the CANCEL task of a posted task
\* t, no slot is in a state other than IDLE with id_task = t and no token
\* is generated for t
C8_CancelStopsTask ==
    /\ \A s \in SlotIds :
          slots[s].id_task \in hist.cancel_processed => slots[s].state = SLOT_STATE_IDLE
    /\ hist.late_tokens = {}

\* C9: once cancel_tasks has appended its result for task t, no result with
\* id t and stop = false is appended to the result list after it, nor
\* returned by recv after it
C9_NothingAfterCancel ==
    \A t \in TaskIds :
        /\ \A j, k \in 1 .. Len(hist.sent[t]) :
               (j < k /\ hist.sent[t][j].kind = "cancelled") => hist.sent[t][k].stop
        /\ \A j, k \in 1 .. Len(hist.received[t]) :
               (j < k /\ hist.received[t][j].kind = "cancelled") => hist.received[t][k].stop

\* the configuration of /v1/cancel with the handlers scheduled fairly: a
\* handler whose recv can return does return (recv waits on a condition
\* variable that send notifies)
ConfigCancelFair == [ConfigCancel EXCEPT !.max_tasks = MaxFairTasks,
                                          !.max_cancels = MaxFairCancels]

InitCancelFair == InitWith(ConfigCancelFair)

SpecCancelFair ==
    InitCancelFair /\ [][NextCancel]_vars /\ \A h \in Handlers : WF_vars(HandlerRecv(h))

\* C10: cancel_tasks appends its result for t while t is in the waiting set
\* and removes t from the waiting set only afterwards, so a handler blocked
\* in recv on a set containing t when cancel_tasks(t) runs has that result
\* as the next one recv returns, or has already received it
C10_CancelUnblocksRecv ==
    \A h \in Handlers : \A t \in threads[h].id_tasks :
        t \in hist.cancelled_in_recv =>
            IF threads[h].pc = "recv"
            THEN /\ recv_pos(queue_results, threads[h].id_tasks) # 0
                 /\ queue_results[recv_pos(queue_results, threads[h].id_tasks)]
                        = cancel_res(t)
            ELSE \E k \in 1 .. Len(hist.received[t]) :
                     hist.received[t][k] = cancel_res(t)

\* C11: a handler blocked in recv never blocks forever; once terminate()
\* has been called the terminate broadcast wakes it.  In finite form: when
\* start_loop has returned, no handler is in recv without a result for it
\* in the result list (nothing can append one any more)
C11_RecvNeverBlocksForever ==
    sched = "done" =>
        \A h \in Handlers :
            threads[h].pc = "recv" => recv_pos(queue_results, threads[h].id_tasks) # 0

\* C12: once terminate() has been called, start_loop eventually returns,
\* whether terminate() is called before or after start_loop begins.  In
\* finite form: start_loop does not wait on the condition variable after
\* terminate() has been called unless running is false (and the wait ends)
C12_LoopReturnsAfterTerminate ==
    (hist.terminated /\ sched = "blocked") => ~running

C14_BulkPostKeepsInputOrder ==
    [][\A x \in Threads :
          /\ (threads[x].pc = "post" /\ threads'[x].pc # "post")
                 => queue_tasks' = queue_tasks \o threads[x].tasks
          /\ (threads[x].pc = "cancel_post" /\ threads'[x].pc # "cancel_post")
                 => queue_tasks' = threads[x].cancelled \o queue_tasks]_vars

\* the number of pop_deferred_task calls of a step that find a deferred
\* task: release calls it once for each slot that goes to IDLE
C15_Popped ==
    Min(Cardinality({s \in SlotIds : /\ slots[s].state # SLOT_STATE_IDLE
                                     /\ slots'[s].state = SLOT_STATE_IDLE}),
        Len(queue_tasks_deferred))

\* C15: defer(task) leaves the task's id unchanged, and successive
\* pop_deferred_task calls move the deferred tasks to the back of the main
\* queue in the order in which they were deferred, one task per call and
\* none when the deferred queue is empty.  As a property of every step: the
\* tasks popped are the first ones of the deferred queue and are, in that
\* order, the last ones of the main queue; the deferred queue keeps the
\* rest, followed by the task being processed, unchanged, if it is deferred
C15_DeferredFifo ==
    [][/\ Len(queue_tasks') >= C15_Popped
       /\ SubSeq(queue_tasks', Len(queue_tasks') - C15_Popped + 1, Len(queue_tasks'))
              = SubSeq(queue_tasks_deferred, 1, C15_Popped)
       /\ \/ queue_tasks_deferred'
                = SubSeq(queue_tasks_deferred, C15_Popped + 1, Len(queue_tasks_deferred))
          \/ /\ sched = "take" /\ queue_tasks # <<>>
             /\ queue_tasks_deferred'
                   = Append(SubSeq(queue_tasks_deferred, C15_Popped + 1,
                                   Len(queue_tasks_deferred)), Head(queue_tasks))]_vars

\* two tasks were deferred, one after the other, and both came back to the
\* main queue and were launched, the one deferred first before the other
C15_Witness ==
    /\ {1, 2} \subseteq hist.deferred \cap hist.launched
    /\ queue_tasks_deferred = <<>>
    /\ \E s \in SlotIds : slots[s].id_task = 2 /\ slots[s].state # SLOT_STATE_IDLE

\* the results with id t of the result list, in the order of the list
C16_Pending(t) == SelectSeq(queue_results, LAMBDA res : res.id = t)

\* C16: recv(S) returns the earliest-sent result of the list whose id is in
\* S, removes exactly that result and leaves the others and their order
\* unchanged; so the results of every task id are returned in the order
\* they were sent, also with handlers in recv concurrently on disjoint
\* sets.  At every moment the results sent for t are those returned for t
\* followed by those of t in the list; and a step in which a result is
\* returned is a step of a handler in recv on some S that removes from the
\* list one result with id in S that has no result with id in S before it,
\* and returns it
C16_RecvInSendOrder ==
    /\ [](\A t \in TaskIds : hist.sent[t] = hist.received[t] \o C16_Pending(t))
    /\ [][hist.received' # hist.received
             => \E h \in Handlers : \E k \in 1 .. Len(queue_results) :
                   /\ threads[h].pc = "recv"
                   /\ queue_results[k].id \in threads[h].id_tasks
                   /\ \A j \in 1 .. (k - 1) : queue_results[j].id \notin threads[h].id_tasks
                   /\ queue_results' = RemoveAt(queue_results, k)
                   /\ hist.received' = [hist.received EXCEPT ![queue_results[k].id] =
                                                              Append(@, queue_results[k])]]_vars

\* two handlers are in recv on disjoint sets, each has been returned a
\* result, and the list holds two results of one task and one of the other
C16_Witness ==
    \E g, h \in Handlers :
        /\ g # h /\ threads[g].pc = "recv" /\ threads[h].pc = "recv"
        /\ threads[g].id_tasks \cap threads[h].id_tasks = {}
        /\ \E t \in threads[g].id_tasks : \E u \in threads[h].id_tasks :
              /\ hist.received[t] # <<>> /\ hist.received[u] # <<>>
              /\ Len(C16_Pending(t)) >= 2 /\ Len(C16_Pending(u)) >= 1

\* C17: for a COMPLETION task that names an explicit id_slot: if a slot
\* with that id exists and is not IDLE the task is deferred; if no slot has
\* that id, an error result is sent for the task and the task is not put
\* back in any queue.  As a property of the step in which the scheduler
\* takes such a task
C17_ExplicitSlot ==
    [][(/\ sched = "take" /\ threads' = threads /\ queue_tasks # <<>>
        /\ Head(queue_tasks).type = SERVER_TASK_TYPE_COMPLETION
        /\ Head(queue_tasks).data.id_slot # -1)
       => IF Head(queue_tasks).data.id_slot \in SlotIds
          THEN slots[Head(queue_tasks).data.id_slot].state # SLOT_STATE_IDLE
                  => /\ queue_tasks_deferred' = Append(queue_tasks_deferred, Head(queue_tasks))
                     /\ queue_tasks' = Tail(queue_tasks)
          ELSE /\ queue_tasks_deferred' = queue_tasks_deferred
               /\ queue_tasks' = Tail(queue_tasks)
               /\ Len(hist.sent'[Head(queue_tasks).id]) > 0
               /\ hist.sent'[Head(queue_tasks).id][Len(hist.sent'[Head(queue_tasks).id])].error]_vars

\* the scheduler takes a COMPLETION task without explicit id_slot
UnpinnedTaken ==
    /\ sched = "take" /\ threads' = threads /\ queue_tasks # <<>>
    /\ Head(queue_tasks).type = SERVER_TASK_TYPE_COMPLETION
    /\ Head(queue_tasks).data.id_slot = -1

\* the prompt get_available_slot is given for the task at the head
TakenPrompt ==
    IF Head(queue_tasks).data.prompt.kind = "string"
    THEN Head(queue_tasks).data.prompt.toks ELSE <<>>

\* the IDLE slots whose stored prompt is a string with L / len > tau
SimilarIdle ==
    IF similarity_num = 0 \/ TakenPrompt = <<>> THEN {}
    ELSE {s \in SlotIds :
             /\ slots[s].state = SLOT_STATE_IDLE
             /\ slots[s].prompt.kind = "string" /\ slots[s].prompt.toks # <<>>
             /\ common_part(slots[s].prompt.toks, TakenPrompt) * similarity_den
                    > Len(slots[s].prompt.toks) * similarity_num}

\* slot r finished its last task earlier than slot s did
FinishedBefore(r, s) ==
    \E i, j \in 1 .. Len(hist.released) :
        i < j /\ hist.released[i] = r /\ hist.released[j] = s

\* C18: with no explicit id_slot and no similarity match, get_available_slot
\* returns the least recently used IDLE slot: no other IDLE slot finished
\* its last task earlier than the chosen one; it returns no slot only when
\* no slot is IDLE.  As a property of the step in which the scheduler takes
\* the task: the slot given the task was IDLE and least recently used
C18_LeastRecentlyUsed ==
    [][(UnpinnedTaken /\ SimilarIdle = {}
           /\ \E s \in SlotIds : slots[s].state = SLOT_STATE_IDLE)
       => \E s \in SlotIds :
             /\ slots[s].state = SLOT_STATE_IDLE
             /\ slots'[s].id_task = Head(queue_tasks).id
             /\ \A r \in SlotIds :
                    slots[r].state = SLOT_STATE_IDLE => ~FinishedBefore(r, s)]_vars

C20_WaitsOnlyWhenNothingPending ==
    [][/\ (sched # "blocked" /\ sched' = "blocked")
             => /\ \A s \in SlotIds : slots[s].state = SLOT_STATE_IDLE
                /\ queue_tasks = <<>>
                /\ queue_tasks_deferred = <<>>
       /\ (sched = "end" /\ sched' # "end"
                          /\ \E s \in SlotIds : slots[s].state # SLOT_STATE_IDLE)
             => queue_tasks # <<>> /\ sched' = "take"]_vars

\* the slots whose i_batch is in the sub-batch [i, i + n_tokens) that the
\* decode loop is about to decode, in a state that samples
C21_Pending(s) ==
    /\ slots[s].i_batch >= decode.i
    /\ slots[s].i_batch < decode.i + Min(decode.n_batch, Len(batch) - decode.i)
    /\ slots[s].state \in {SLOT_STATE_DONE_PROMPT, SLOT_STATE_GENERATING}

\* an iteration that halves n_batch and retries from the same offset
C21_Retry ==
    /\ decode.n_batch > 1
    /\ sched' = "decode"
    /\ decode'.n_batch = decode.n_batch \div 2
    /\ decode'.i = decode.i
    /\ batch' = batch /\ slots' = slots /\ queue_results' = queue_results

\* the fatal path: every slot is IDLE afterwards, an error has been sent
\* for the task of every slot (appended when the task is waited for), and
\* the loop has ended
C21_Fatal ==
    /\ sched' = "end"
    /\ \A s \in SlotIds :
          /\ slots'[s].state = SLOT_STATE_IDLE
          /\ slots[s].id_task \in waiting_task_ids =>
                Len(SelectSeq(queue_results', LAMBDA r : r.error /\ r.id = slots[s].id_task))
                    > Len(SelectSeq(queue_results, LAMBDA r : r.error /\ r.id = slots[s].id_task))

\* a successful sub-batch: the slots pending in it are sampled, no other
\* slot is touched, and the loop goes on at i + n_batch or ends there
C21_Decoded ==
    /\ \A s \in SlotIds :
          IF C21_Pending(s)
          THEN /\ slots'[s].i_batch = -1
               /\ IF is_embd(slots[s]) THEN slots'[s].state = SLOT_STATE_IDLE
                  ELSE slots'[s].n_decoded >= slots[s].n_decoded + 1
          ELSE slots'[s] = slots[s]
    /\ IF decode.i + decode.n_batch < Len(batch)
       THEN /\ sched' = "decode" /\ batch' = batch
            /\ decode'.i = decode.i + decode.n_batch
            /\ decode'.n_batch = decode.n_batch
       ELSE sched' = "end"

\* what is left of the decode loop: the tokens not decoded yet count twice,
\* the halvings still possible once
C21_Left == 2 * (Len(batch) - decode.i) + decode.n_batch

\* C21: in the decode loop of update_slots, a failed forward pass that is
\* not fatal halves n_batch and retries from the same offset i; the fatal
\* path (failure at n_batch = 1, or a negative return) releases every slot,
\* sends an error for each and ends the loop; a successful forward pass
\* samples exactly the slots whose i_batch is in the decoded sub-batch and
\* goes on with the tokens right after it, so that the successful
\* sub-batches partition the batch and every pending slot is sampled once.
\* The loop terminates: n_batch stays positive, i stays inside the batch,
\* and C21_Left decreases with every iteration that stays in the loop (the
\* steps of the other threads leave sched and the loop's variables as they
\* are).  Outside the loop no slot that samples has a pending i_batch
C21_DecodeLoop ==
    /\ [](sched = "decode" =>
              /\ decode.n_batch >= 1
              /\ decode.i >= 0 /\ decode.i < Len(batch))
    /\ [](sched # "decode" =>
              \A s \in SlotIds :
                  slots[s].state \in {SLOT_STATE_DONE_PROMPT, SLOT_STATE_GENERATING}
                      => slots[s].i_batch = -1)
    /\ [][sched = "decode" /\ sched' = "decode" /\ decode' # decode
              => C21_Left' < C21_Left]_vars
    /\ [][sched = "decode" /\ (sched' # sched \/ decode' # decode)
              => C21_Retry \/ C21_Fatal \/ C21_Decoded]_vars

\* after a retry with n_batch halved to 1 the first sub-batch has been
\* decoded, and the slot whose token is in the second one is still pending
C21_Witness ==
    /\ sched = "decode" /\ decode.n_batch = 1 /\ decode.i = 1 /\ Len(batch) = 2
    /\ \E s \in SlotIds : C21_Pending(s)
    /\ \E s \in SlotIds : slots[s].state = SLOT_STATE_GENERATING /\ slots[s].i_batch = -1

\* the tokens of the prompt of slot s before any truncation
C22_PromptLen(s) == Len(slot_tokens(Ctx, slots[s]))

\* slot s has reached DONE_PROMPT with a prompt that extended cache_tokens
\* by one token or more
C22_Reused(s) ==
    /\ grp_attn_n = 1
    /\ slots[s].state = SLOT_STATE_DONE_PROMPT
    /\ slots[s].cache_prompt
    /\ slots[s].n_new >= 1

C23_Finished(s) == slots[s].state = SLOT_STATE_IDLE /\ slots[s].id_task # -1

\* C23: with a deterministic target sampler, a task ends with the same
\* generated_text, n_decoded and stop flags with speculative decoding (slot
\* 0, for every accepted-prefix length) as without it (slot 1), for every
\* budget, stop string and position of the end-of-generation token.  The
\* pieces of the tokens are one byte each, so that generated_text and
\* stopped_eos give the tokens that process_token was given
C23_SpeculationEquivalent ==
    (C23_Finished(0) /\ C23_Finished(1)) =>
        /\ slots[0].generated_text = slots[1].generated_text
        /\ slots[0].n_decoded      = slots[1].n_decoded
        /\ slots[0].stopped_eos    = slots[1].stopped_eos
        /\ slots[0].stopped_word   = slots[1].stopped_word
        /\ slots[0].stopped_limit  = slots[1].stopped_limit

\* slot 0 has been shifted twice by d and slot 1 once by 2 d
C24_BothShifted ==
    /\ slots[0].n_past = Len(slots[0].prompt_tokens) - 2 * slots[0].n_discard
    /\ slots[1].n_past = Len(slots[1].prompt_tokens) - slots[1].n_discard

\* C24: for a slot with a fixed n_keep and an explicit n_discard = d, two
\* context shifts in a row give the same cache_tokens and the same n_past
\* as one shift that discards 2 d tokens, when at least 2 d tokens follow
\* the kept prefix
C24_ShiftTwice ==
    C24_BothShifted =>
        /\ slots[0].cache_tokens = slots[1].cache_tokens
        /\ slots[0].n_past       = slots[1].n_past

\* the tokens A A B B A shifted twice by one token after BOS
C24_Witness ==
    /\ C24_BothShifted
    /\ slots[0].n_discard = 1
    /\ slots[0].prompt_tokens = <<TOK_A, TOK_A, TOK_B, TOK_B, TOK_A>>
    /\ slots[0].cache_tokens = <<TOK_A, TOK_B, TOK_A>>

\* C25: with ctx_shift enabled and group attention off, the live tokens of
\* every slot's sequence, |system_tokens| + n_past, never exceed n_ctx - 4 of
\* the slot, in generation, after the truncation of a prompt and after a
\* speculative step
C25_LiveTokensBound ==
    (cfg.ctx_shift /\ grp_attn_n = 1) =>
        \A s \in SlotIds : Len(system_tokens) + slots[s].n_past <= n_ctx_slot - 4

\* the bytes sent in the partial results of the list results
RECURSIVE C26_SentLen(_)
C26_SentLen(results) ==
    IF results = <<>> THEN 0 ELSE Len(Head(results).content) + C26_SentLen(Tail(results))

\* C26: when the token given to process_token completes the slot's stop
\* string W, which began in an earlier token (the first occurrence of W in
\* the text generated so far followed by the token's piece starts before the
\* piece and ends in it), process_token sets stopped_word and
\* stopping_word = W, cuts generated_text at the start of W and returns
\* has_next_token = false, and the partial results sent before hold no
\* character of W.
C26_StopStringDetected ==
    [][\A k \in 1 .. Len(slots[0].antiprompt) :
          (/\ sched = "token" /\ slots'[0] # slots[0]
           /\ StrFind(slots[0].generated_text \o llama_token_to_piece(slots'[0].sampled),
                      slots[0].antiprompt[k], 0) # npos
           /\ StrFind(slots[0].generated_text \o llama_token_to_piece(slots'[0].sampled),
                      slots[0].antiprompt[k], 0) < Len(slots[0].generated_text)
           /\ StrFind(slots[0].generated_text \o llama_token_to_piece(slots'[0].sampled),
                      slots[0].antiprompt[k], 0) + Len(slots[0].antiprompt[k])
                  > Len(slots[0].generated_text))
          => /\ slots'[0].stopped_word
             /\ slots'[0].stopping_word = slots[0].antiprompt[k]
             /\ slots'[0].generated_text =
                    Take(slots[0].generated_text,
                         StrFind(slots[0].generated_text
                                    \o llama_token_to_piece(slots'[0].sampled),
                                 slots[0].antiprompt[k], 0))
             /\ ~slots'[0].has_next_token
             /\ C26_SentLen(hist.sent[0])
                    <= StrFind(slots[0].generated_text
                                  \o llama_token_to_piece(slots'[0].sampled),
                               slots[0].antiprompt[k], 0)]_vars

\* C27: a completion with n_predict = k >= 1, k below the slot's context,
\* that meets no end-of-generation token and no stop string never has
\* n_decoded above k, with or without speculative decoding, and when it has
\* ended stopped_limit is set and n_decoded (the tokens_predicted of the
\* final response) is k.
C27_BudgetExact ==
    \A s \in SlotIds :
        (/\ slots[s].id_task # -1
         /\ cfg.eog_at = 0 /\ slots[s].antiprompt = <<>>
         /\ slots[s].n_predict >= 1 /\ slots[s].n_predict < n_ctx_slot)
        => /\ slots[s].n_decoded <= slots[s].n_predict
           /\ C23_Finished(s)
                  => slots[s].stopped_limit /\ slots[s].n_decoded = slots[s].n_predict

\* the slot process_single_task chooses for the task at the head of the queue
C28_Slot ==
    IF Head(queue_tasks).data.id_slot # -1
    THEN get_slot_by_id(Ctx, Head(queue_tasks).data.id_slot)
    ELSE get_available_slot(Ctx, IF Head(queue_tasks).data.prompt.kind = "string"
                                 THEN Head(queue_tasks).data.prompt.toks ELSE <<>>)

\* the step in which the scheduler takes a COMPLETION task that
\* launch_slot_with_task rejects, and the error result is sent
C28_Rejected ==
    /\ sched = "take" /\ queue_tasks # <<>>
    /\ Head(queue_tasks).type = SERVER_TASK_TYPE_COMPLETION
    /\ Head(queue_tasks).id \in TaskIds
    /\ \/ Head(queue_tasks).data.both_grammars \/ ~Head(queue_tasks).data.schema_ok
       \/ ~prompt_accepted(Head(queue_tasks)) \/ ~Head(queue_tasks).data.sampler_ok
    /\ C28_Slot # -1
    /\ Head(queue_tasks).id \notin hist'.launched
    /\ Len(hist'.sent[Head(queue_tasks).id]) = Len(hist.sent[Head(queue_tasks).id]) + 1
    /\ hist'.sent[Head(queue_tasks).id][Len(hist'.sent[Head(queue_tasks).id])].kind = "error"

\* the fields of a slot the claim names: id_task, n_past, the parameters,
\* the prompt and the stop flags
C28_Fields(slot) ==
    << slot.id_task, slot.n_past,
       slot.stream, slot.cache_prompt, slot.n_predict, slot.n_keep, slot.n_discard,
       slot.spec_n_max, slot.antiprompt, slot.input_prefix, slot.input_suffix,
       slot.prompt,
       slot.truncated, slot.stopped_eos, slot.stopped_word, slot.stopped_limit,
       slot.stopping_word >>

C29_Taken ==
    /\ sched = "take" /\ queue_tasks # <<>>
    /\ Head(queue_tasks).type \in {SERVER_TASK_TYPE_SLOT_SAVE, SERVER_TASK_TYPE_SLOT_RESTORE,
                                   SERVER_TASK_TYPE_SLOT_ERASE}
    /\ queue_tasks' = Tail(queue_tasks)

\* the slot the task names, -1 when there is none
C29_Target == get_slot_by_id(Ctx, Head(queue_tasks).data.id_slot)

\* the task is answered with an error: unknown slot, or a restore that
\* reads 0 bytes
C29_Fails ==
    \/ C29_Target = -1
    \/ /\ Head(queue_tasks).type = SERVER_TASK_TYPE_SLOT_RESTORE
       /\ ~Head(queue_tasks).data.file_ok

\* the step defers the task, changes no slot and sends nothing
C29_Deferred ==
    /\ slots' = slots
    /\ queue_tasks_deferred' = Append(queue_tasks_deferred, Head(queue_tasks))
    /\ queue_results' = queue_results

\* the step puts exactly one result of the task in queue_results, an error
\* result or a result with stop = true, and an ERASE empties cache_tokens
C29_Answered ==
    /\ queue_tasks_deferred' = queue_tasks_deferred
    /\ Len(queue_results') = Len(queue_results) + 1
    /\ SubSeq(queue_results', 1, Len(queue_results)) = queue_results
    /\ queue_results'[Len(queue_results')].id = Head(queue_tasks).id
    /\ queue_results'[Len(queue_results')].error = C29_Fails
    /\ ~C29_Fails => queue_results'[Len(queue_results')].stop
    /\ (Head(queue_tasks).type = SERVER_TASK_TYPE_SLOT_ERASE /\ C29_Target # -1)
           => slots'[C29_Target].cache_tokens = <<>>

\* C29: a SLOT_SAVE, SLOT_RESTORE or SLOT_ERASE task whose slot is not IDLE
\* is deferred with no change to the slot and no result sent; otherwise the
\* task sends exactly one result, with stop = true, or an error result for
\* an unknown slot id or a restore that reads 0 bytes, and SLOT_ERASE leaves
\* the slot's cache_tokens empty.
C29_SlotTaskAnswered ==
    [][C29_Taken
          => IF C29_Target # -1 /\ is_processing(slots[C29_Target])
             THEN C29_Deferred ELSE C29_Answered]_vars

\* C30: pop_deferred_task runs once for each slot that goes from a state
\* other than IDLE to IDLE and at no other time, and every path that makes
\* a slot available again, a rejected launch included, moves one deferred
\* task when the deferred queue is not empty.  As a property of every step:
\* the deferred queue loses one task, its first ones, for each slot that
\* goes to IDLE (as far as it has tasks) and none otherwise, and a step in
\* which launch_slot_with_task rejects a task while the deferred queue is
\* not empty moves the first deferred task to the back of the main queue.
C30_OnePopPerRelease ==
    [][/\ \/ queue_tasks_deferred'
                = SubSeq(queue_tasks_deferred, C15_Popped + 1, Len(queue_tasks_deferred))
          \/ /\ sched = "take" /\ queue_tasks # <<>>
             /\ C15_Popped = 0
             /\ queue_tasks_deferred' = Append(queue_tasks_deferred, Head(queue_tasks))
       /\ (C28_Rejected /\ queue_tasks_deferred # <<>>)
              => /\ queue_tasks_deferred' = Tail(queue_tasks_deferred)
                 /\ queue_tasks' # <<>>
                 /\ queue_tasks'[Len(queue_tasks')] = Head(queue_tasks_deferred)]_vars

\* the type of slot s for the batch: 1 for embedding and rerank, else 0
C31_Type(s) == IF is_embd(slots[s]) THEN 1 ELSE 0

\* slot s waits with its prompt tokenized and no token of it in a batch yet
C31_Skipped(s) ==
    /\ slots[s].state = SLOT_STATE_PROCESSING_PROMPT
    /\ slots[s].prompt_tokens # <<>> /\ ~slots[s].admitted

C32_Entries(s) == {k \in 1 .. Len(batch) : batch[k].seq_id = s + 1}

\* the prompt of slot s is tokenized in this step and cache_tokens covers
\* all of it
C32_Covered(s) ==
    /\ slots[s].state = SLOT_STATE_PROCESSING_PROMPT
    /\ slots[s].prompt_tokens = <<>>
    /\ slots'[s].prompt_tokens # <<>>
    /\ slots'[s].state \in {SLOT_STATE_PROCESSING_PROMPT, SLOT_STATE_DONE_PROMPT}
    /\ slots'[s].cache_prompt /\ ~is_embd(slots'[s])
    /\ common_part(slots[s].cache_tokens, slots'[s].prompt_tokens)
           = slots'[s].n_prompt_tokens

C33_Update == sched = "take" /\ sched' \in {"decode", "end"}

\* the condition of line 2035 on slot s
C33_Guard(s) ==
    /\ grp_attn_n = 1 /\ slots[s].state # SLOT_STATE_IDLE
    /\ Len(system_tokens) + slots[s].n_past >= n_ctx_slot - 1

\* n_keep and n_discard of the shift of slot s (lines 2045-2047)
C33_Keep(s) == slots[s].n_keep + (IF add_bos_token THEN 1 ELSE 0)
C33_Discard(s) ==
    IF slots[s].n_discard # 0 THEN slots[s].n_discard
    ELSE CDiv(Len(system_tokens) + slots[s].n_past - C33_Keep(s), 2)

\* cache_tokens of slot s after update_slots is the cache before it without
\* the d tokens that followed the first k, and with the sampled token that
\* update_slots then appends
C33_Slid(s, k, d) ==
    /\ Len(slots'[s].cache_tokens) = Len(slots[s].cache_tokens) - d + 1
    /\ k <= Len(slots'[s].cache_tokens) - 1
    /\ \A i \in 1 .. k : slots'[s].cache_tokens[i] = slots[s].cache_tokens[i]
    /\ \A i \in k + 1 .. Len(slots[s].cache_tokens) - d :
           slots'[s].cache_tokens[i] = slots[s].cache_tokens[i + d]
    /\ slots'[s].cache_tokens[Len(slots'[s].cache_tokens)] = slots[s].sampled

\* C33: update_slots shifts the context of a slot only when group attention
\* is off, the slot is not IDLE and |system_tokens| + n_past >= n_ctx - 1.
\* The shift removes exactly n_discard tokens right after the first n_keep
\* of cache_tokens, keeps the first n_keep and the order of the entries
\* after the window, decreases n_past by n_discard and sets truncated; a
\* slot that does not meet the condition is not shifted; with ctx_shift
\* disabled the slot is released and an error result is sent.  (For a
\* generating slot, whose sampled token update_slots then adds: n_past
\* grows by one and the token is appended to cache_tokens.)
C33_ContextShift ==
    [][C33_Update =>
          \A s \in SlotIds :
             IF ~C33_Guard(s)
             THEN slots[s].state = SLOT_STATE_GENERATING
                  => /\ slots'[s].n_past = slots[s].n_past + 1
                     /\ slots'[s].truncated = slots[s].truncated
                     /\ slots'[s].cache_tokens =
                            IF slots[s].cache_prompt
                            THEN Append(slots[s].cache_tokens, slots[s].sampled)
                            ELSE slots[s].cache_tokens
             ELSE IF ~cfg.ctx_shift
             THEN /\ slots'[s].state = SLOT_STATE_IDLE
                  /\ \E k \in Len(queue_results) + 1 .. Len(queue_results') :
                         /\ queue_results'[k].id = slots[s].id_task
                         /\ queue_results'[k].error
             ELSE slots[s].state = SLOT_STATE_GENERATING
                  => /\ slots'[s].n_past = slots[s].n_past - C33_Discard(s) + 1
                     /\ slots'[s].truncated
                     /\ slots[s].cache_prompt
                            => C33_Slid(s, C33_Keep(s), C33_Discard(s))]_vars

\* C39: for every n_keep and n_discard that a request supplies, the shift
\* of a slot has 0 <= n_keep <= n_past - n_discard and n_discard >= 1: it
\* discards a token or more, never more tokens than follow the kept
\* prefix, leaves n_past >= 0 and never resizes cache_tokens below n_keep
C39_ShiftInRange ==
    \A s \in SlotIds :
        (sched = "take" /\ queue_tasks = <<>> /\ cfg.ctx_shift /\ C33_Guard(s))
        => /\ C33_Discard(s) >= 1
           /\ 0 <= C33_Keep(s)
           /\ C33_Keep(s) <= slots[s].n_past - C33_Discard(s)
           /\ slots[s].cache_prompt
                  => C33_Keep(s) <= Len(slots[s].cache_tokens) - C33_Discard(s)

\* the prompt of slot s is to be tokenized and has no token
C34_Empty(s) ==
    /\ slots[s].state = SLOT_STATE_PROCESSING_PROMPT
    /\ slots[s].prompt_tokens = <<>>
    /\ slots[s].cmpl_type = SERVER_TASK_CMPL_TYPE_NORMAL
    /\ slot_tokens(Ctx, slots[s]) = <<>>

\* the slots that update_slots releases in this step
C34_Released == {s \in SlotIds : slots[s].state # SLOT_STATE_IDLE
                                    /\ slots'[s].state = SLOT_STATE_IDLE}

C35_Entries(s) == {k \in 1 .. Len(batch') : batch'[k].seq_id = s + 1}

\* C35: every token submitted to the target model for slot s, in the main
\* batch and in the speculative batch, carries sequence id s + 1 and, with
\* group attention off, position |system_tokens| + j, where j is the number
\* of the slot's tokens that precede it in its sequence: in the main batch
\* the last token of the slot is at |system_tokens| + n_past - 1 and the
\* tokens before it at the positions before, and the speculative batch
\* starts at |system_tokens| + n_past
C35_Positions ==
    /\ [](\A k \in 1 .. Len(batch) : batch[k].seq_id - 1 \in SlotIds)
    /\ [][C33_Update =>
             \A s \in SlotIds : \A k \in C35_Entries(s) :
                batch'[k].pos = Len(system_tokens') + slots'[s].n_past - 1
                                  - Cardinality({j \in C35_Entries(s) : j > k})]_vars
    /\ [][\A s \in SlotIds :
             slots'[s].batch_spec \notin {<<>>, slots[s].batch_spec}
             => \A k \in 1 .. Len(slots'[s].batch_spec) :
                   /\ slots'[s].batch_spec[k].seq_id = s + 1
                   /\ slots'[s].batch_spec[k].pos
                          = Len(system_tokens) + slots[s].n_past + k - 1]_vars

\* C36: for every handler that posts a task and then waits for its result,
\* the id of the task is in waiting_task_ids before the scheduler can
\* process the task, so that send does not drop the result: whenever
\* start_loop takes a completion or slot task from the queue, its id is
\* waiting
C36_WaitingBeforeTaken ==
    [][(/\ sched = "take" /\ queue_tasks # <<>>
        /\ queue_tasks' = Tail(queue_tasks)
        /\ Head(queue_tasks).type \in {SERVER_TASK_TYPE_COMPLETION,
                                       SERVER_TASK_TYPE_SLOT_SAVE,
                                       SERVER_TASK_TYPE_SLOT_RESTORE,
                                       SERVER_TASK_TYPE_SLOT_ERASE})
          => Head(queue_tasks).id \in waiting_task_ids]_vars

\* C38: the result list never keeps a result that no handler will
\* receive: once the handler of a task has finished and the task's id is
\* out of waiting_task_ids, no result with that id is in queue_results
C38_NoOrphanResult ==
    \A x \in Threads :
        threads[x].pc = "done"
        => \A k \in 1 .. Len(queue_results) :
              queue_results[k].id \in threads[x].id_tasks
              => queue_results[k].id \in waiting_task_ids

\* the text sent in the partial results of the list results
RECURSIVE C37_SentText(_)
C37_SentText(results) ==
    IF results = <<>> THEN <<>> ELSE Head(results).content \o C37_SentText(Tail(results))

\* C37: in streaming mode, when a task ends, the concatenation of the
\* content of the partial results sent for it is the task's generated_text
\* (after the truncation at a stop string): text that was held back is sent
\* later and never lost
C37_StreamedTextComplete ==
    (slots[0].stream /\ ~slots[0].has_next_token)
        => C37_SentText(hist.sent[0]) = slots[0].generated_text

\* the prompt of slot 0 has been tokenized and had n_ctx tokens or more
C40_TooLong == sched = "tokenized" /\ Len(slots[0].prompt.toks) >= slots[0].n_ctx

\* C40: when a prompt has n_ctx tokens or more (group attention off), the
\* truncation keeps the first n_keep tokens and a suffix of the prompt,
\* sets truncated and leaves n_prompt_tokens < n_ctx, so that the assertion
\* of line 2240 holds, with no index out of range, for every n_ctx, every
\* prompt length and every n_keep of a request
C40_TruncationInRange ==
    (C40_TooLong /\ grp_attn_n = 1) =>
        /\ ~hist.out_of_range /\ ~hist.assert_failed
        /\ slots[0].truncated
        /\ slots[0].n_prompt_tokens = Len(slots[0].prompt_tokens)
        /\ slots[0].n_prompt_tokens < slots[0].n_ctx
        /\ 0 <= slots[0].n_keep /\ slots[0].n_keep <= slots[0].n_prompt_tokens
        /\ Take(slots[0].prompt_tokens, slots[0].n_keep)
               = Take(slots[0].prompt.toks, slots[0].n_keep)
        /\ Drop(slots[0].prompt_tokens, slots[0].n_keep)
               = Drop(slots[0].prompt.toks,
                      Len(slots[0].prompt.toks) - (slots[0].n_prompt_tokens - slots[0].n_keep))
====
